---- MODULE Spec2Model ----
(***************************************************************************)
(* Model of the meeting-room booking bot (src/bot.py): the bookings table, *)
(* the booking and admin-block conversations, the cancel command and the   *)
(* reminder jobs of the job queue.                                         *)
(*                                                                         *)
(* Time is counted in minutes (the code counts seconds); a date is a day   *)
(* number, a datetime is a triple <<day, hour, minute>> and a timestamp is *)
(* the number of minutes since day 0, 00:00.                               *)
(***************************************************************************)
EXTENDS Integers, Sequences, FiniteSets, Bags, TLC

(***************************************************************************)
(* Bounds of the model                                                     *)
(***************************************************************************)
\* at most MaxId rows are ever inserted by create_booking, and the
\* AUTOINCREMENT counter never passes MaxSeq
MaxId == 2
\* the clock runs from day 1 up to the end of day MaxDay
MaxDay == 2
MaxSeq == 4
\* a call of the Bot API raises only while fewer than MaxLog failures are logged
MaxLog == 3

(***************************************************************************)
(* Program constants                                                       *)
(***************************************************************************)
BOOK_ROOM == 0
BOOK_DATE == 1
BOOK_START == 2
BOOK_END == 3
BOOK_TOPIC == 4
BOOK_NAME == 5
BOOK_CONTACT == 6
BOOK_CONFIRM == 7
ADMIN_BLOCK_ROOM == 20
ADMIN_BLOCK_DATE == 21
ADMIN_BLOCK_START == 22
ADMIN_BLOCK_END == 23
ADMIN_BLOCK_REASON == 24
\* ConversationHandler.END
END == -1

ROOMS == [ROOM3 |-> "floor3", ROOM4 |-> "floor4"]
WORK_START_HOUR == 6
WORK_END_HOUR == 24
MIN_DURATION_MINUTES == 10
PLANNING_DAYS == 120
\* timedelta(days=1), in minutes
DAY == 1440

\* Python None / SQL NULL in an integer column and in a text column
None == -1
NoneText == "NULL"

\* the users that talk to the bot, and those of them listed in ADMIN_IDS
Users == {1, 2}
ADMIN_IDS == {2}
\* user.username of every user, NoneText when the user has none
Username == [u \in Users |-> IF u = 1 THEN "alice" ELSE NoneText]
\* the configured shared chat
GroupChat == 100

is_admin(user_id) == user_id \in ADMIN_IDS

(***************************************************************************)
(* State                                                                   *)
(***************************************************************************)
VARIABLES
    rows,            \* table bookings: id -> row
    sqlite_sequence, \* AUTOINCREMENT counter of the table: largest id ever assigned
    clock,           \* current time, minutes
    conv,            \* booking_conversation state of every user
    ablock_conv,     \* admin_block_conversation state of every user
    user_data,       \* context.user_data of every user: key -> draft
    jobs,            \* job queue: bag of reminder jobs [booking_id, when]
    outbox,          \* reminder messages handed to the transport (delivered or not): bag of [chat_id, booking_id]
    ran,             \* booking ids whose reminder job has run
    made,            \* rows inserted by the current booking dialog of every user
    answer,          \* the answer that ended the last booking dialog of every user
    GROUP_CHAT_ID,   \* shared chat from the environment, None when not configured
    send_fails,      \* the calls of the Bot API may raise (the transport is unreliable)
    log              \* the failed calls written to the log: set of [at, chat_id, booking_id]

\* a call of the Bot API may raise now
MayRaise == send_fails /\ Cardinality(log) < MaxLog

vars == <<rows, sqlite_sequence, clock, conv, ablock_conv, user_data, jobs,
          outbox, ran, made, answer, GROUP_CHAT_ID, send_fails, log>>

(***************************************************************************)
(* Time helpers                                                            *)
(***************************************************************************)
now == clock
today == clock \div DAY

\* parse_date: the words today / tomorrow, a written date "D<n>", or None
Calendar == [D0 |-> 0, D1 |-> 1, D2 |-> 2, D3 |-> 3, D121 |-> 121, D122 |-> 122, D123 |-> 123]
parse_date(text) ==
    IF text = "today" THEN today
    ELSE IF text = "tomorrow" THEN today + 1
    ELSE IF text \in DOMAIN Calendar THEN Calendar[text]
    ELSE None

\* parse_time: a text "h:m" is given as <<h, m>>; strptime("%H:%M") rejects
\* an hour above 23 and a minute above 59
parse_time(text) ==
    IF text[1] \in 0..23 /\ text[2] \in 0..59 THEN text ELSE <<>>

combine_date_time(d, h, m) == <<d, h, m>>
dt_to_ts(dt) == dt[1] * DAY + dt[2] * 60 + dt[3]
ts_to_dt(ts) == <<ts \div DAY, (ts % DAY) \div 60, ts % 60>>

(***************************************************************************)
(* BookingStorage                                                          *)
(***************************************************************************)
Ids == DOMAIN rows
Table == {rows[i] : i \in Ids}

\* create_booking: INSERT with canceled = 0, created_at = time.time(); the
\* result is <<table, sequence>>, lastrowid is the new sequence value
create_booking(room, start_dt, end_dt, user_id, user_full_name, user_contact, topic, is_block, block_reason) ==
    LET id == sqlite_sequence + 1
        row == [id |-> id, room |-> room,
                start_ts |-> dt_to_ts(start_dt), end_ts |-> dt_to_ts(end_dt),
                user_id |-> user_id, user_full_name |-> user_full_name,
                user_contact |-> user_contact, topic |-> topic,
                is_block |-> IF is_block THEN 1 ELSE 0,
                block_reason |-> block_reason,
                canceled |-> 0, canceled_at |-> None, created_at |-> clock]
    IN  <<rows @@ (id :> row), id>>

\* cancel_booking as DELETE FROM bookings WHERE id = ?
cancel_booking_deletes_row(booking_id) ==
    [i \in Ids \ {booking_id} |-> rows[i]]

\* cancel_booking: UPDATE ... SET canceled = 1, canceled_at = now WHERE id = ?
cancel_booking(booking_id) ==
    [i \in Ids |-> IF i = booking_id
                   THEN [rows[i] EXCEPT !.canceled = 1, !.canceled_at = clock]
                   ELSE rows[i]]

\* get_booking: the rows with this id, none or one (id is the primary key)
get_booking(booking_id) ==
    {r \in Table : r.id = booking_id}

get_user_future_bookings(user_id) ==
    {r \in Table : r.user_id = user_id /\ r.canceled = 0 /\ r.is_block = 0
                   /\ r.start_ts >= clock}

get_future_bookings ==
    {r \in Table : r.canceled = 0 /\ r.start_ts >= clock}

\* get_bookings_for_day: room = NoneText means all rooms
get_bookings_for_day(room, d) ==
    LET start == dt_to_ts(<<d, 0, 0>>)
        end == dt_to_ts(<<d, 23, 59>>)
    IN  IF room # NoneText
        THEN {r \in Table : r.room = room /\ r.canceled = 0
                            /\ r.start_ts <= end /\ r.end_ts >= start}
        ELSE {r \in Table : r.canceled = 0
                            /\ r.start_ts <= end /\ r.end_ts >= start}

get_bookings_for_range(start_ts, end_ts) ==
    {r \in Table : r.canceled = 0 /\ r.start_ts >= start_ts /\ r.start_ts <= end_ts}

get_all_bookings == Table

\* check_conflicts with closed intervals: < and > where the query has <= and >=
check_conflicts_closed(room, start_dt, end_dt, exclude_booking_id) ==
    LET s_ts == dt_to_ts(start_dt)
        e_ts == dt_to_ts(end_dt)
    IN  {r \in Table : r.room = room /\ r.canceled = 0
                       /\ (exclude_booking_id \in {None, 0} \/ r.id # exclude_booking_id)
                       /\ ~(r.end_ts < s_ts \/ r.start_ts > e_ts)}

\* check_conflicts without the condition canceled = 0
check_conflicts_with_canceled(room, start_dt, end_dt, exclude_booking_id) ==
    LET s_ts == dt_to_ts(start_dt)
        e_ts == dt_to_ts(end_dt)
    IN  {r \in Table : r.room = room
                       /\ (exclude_booking_id \in {None, 0} \/ r.id # exclude_booking_id)
                       /\ ~(r.end_ts <= s_ts \/ r.start_ts >= e_ts)}

\* check_conflicts: exclude_booking_id = None when the caller gives none
check_conflicts(room, start_dt, end_dt, exclude_booking_id) ==
    LET s_ts == dt_to_ts(start_dt)
        e_ts == dt_to_ts(end_dt)
    IN  IF exclude_booking_id # None /\ exclude_booking_id # 0
        THEN {r \in Table : r.room = room /\ r.canceled = 0
                            /\ r.id # exclude_booking_id
                            /\ ~(r.end_ts <= s_ts \/ r.start_ts >= e_ts)}
        ELSE {r \in Table : r.room = room /\ r.canceled = 0
                            /\ ~(r.end_ts <= s_ts \/ r.start_ts >= e_ts)}

(***************************************************************************)
(* Drafts in context.user_data.  A draft is a dict; a key that is not set  *)
(* reads None.  present = FALSE is the popped (absent) dict.               *)
(***************************************************************************)
NoDraft ==
    [present |-> FALSE, room |-> NoneText, date |-> None, start_dt |-> <<>>,
     end_dt |-> <<>>, topic |-> NoneText, user_full_name |-> NoneText,
     user_contact |-> NoneText]
EmptyDraft == [NoDraft EXCEPT !.present = TRUE]

\* d is None or {} (Python "not d")
Falsy(d) == ~d.present \/ d = EmptyDraft

\* text.strip() on the texts the model sends
strip(text) == IF text = " " THEN "" ELSE text

(***************************************************************************)
(* Reminders: arming                                                       *)
(***************************************************************************)
Job(booking_id, when) == [booking_id |-> booking_id, when |-> when]

\* schedule_reminder_for_booking that fires at the start, not a day before
schedule_reminder_at_start(q, tbl, booking_id) ==
    LET found == {r \in tbl : r.id = booking_id}
        row == CHOOSE r \in found : TRUE
        delay == dt_to_ts(ts_to_dt(row.start_ts)) - now
    IN  IF found = {} THEN q
        ELSE IF row.canceled # 0 \/ row.is_block # 0 THEN q
        ELSE IF delay <= 0 THEN q
        ELSE q (+) SetToBag({Job(booking_id, now + delay)})

\* schedule_reminder_for_booking that does not look at canceled and is_block
schedule_reminder_any_row(q, tbl, booking_id) ==
    LET found == {r \in tbl : r.id = booking_id}
        row == CHOOSE r \in found : TRUE
        delay == (dt_to_ts(ts_to_dt(row.start_ts)) - DAY) - now
    IN  IF found = {} THEN q
        ELSE IF delay <= 0 THEN q
        ELSE q (+) SetToBag({Job(booking_id, now + delay)})

\* schedule_reminder_for_booking that arms a job that runs at once when the
\* reminder time has passed
schedule_reminder_also_when_late(q, tbl, booking_id) ==
    LET found == {r \in tbl : r.id = booking_id}
        row == CHOOSE r \in found : TRUE
        reminder_ts == dt_to_ts(ts_to_dt(row.start_ts)) - DAY
        delay == reminder_ts - now
    IN  IF found = {} THEN q
        ELSE IF row.canceled # 0 \/ row.is_block # 0 THEN q
        ELSE IF delay <= 0 THEN q (+) SetToBag({Job(booking_id, now)})
        ELSE q (+) SetToBag({Job(booking_id, now + delay)})

\* schedule_reminder_for_booking on job queue q and table tbl: the new job
\* queue.  run_once(when = delay) fires at now + delay = start - 1 day.
schedule_reminder_for_booking(q, tbl, booking_id) ==
    LET found == {r \in tbl : r.id = booking_id}
        row == CHOOSE r \in found : TRUE
        reminder_ts == dt_to_ts(ts_to_dt(row.start_ts)) - DAY
        delay == reminder_ts - now
    IN  IF found = {} THEN q
        ELSE IF row.canceled # 0 \/ row.is_block # 0 THEN q
        ELSE IF delay <= 0 THEN q
        ELSE q (+) SetToBag({Job(booking_id, now + delay)})

(***************************************************************************)
(* Booking conversation.  Every handler answers the user; the answers that *)
(* the properties speak of are given as operators (confirm_reply,          *)
(* cancel_reply).                                                          *)
(***************************************************************************)
\* entry point of booking_conversation: taken only outside the conversation
book_start(a) ==
    /\ conv[a] = END
    /\ user_data' = [user_data EXCEPT ![a].booking = EmptyDraft]
    /\ conv' = [conv EXCEPT ![a] = BOOK_ROOM]
    /\ made' = [made EXCEPT ![a] = 0]
    /\ answer' = [answer EXCEPT ![a] = "none"]
    /\ UNCHANGED <<rows, sqlite_sequence, clock, ablock_conv, jobs, outbox, ran, GROUP_CHAT_ID, send_fails, log>>

\* data is the callback data after the prefix "ROOM_"
book_choose_room(a, data) ==
    /\ conv[a] = BOOK_ROOM
    /\ IF data = "CANCEL"
       THEN /\ user_data' = [user_data EXCEPT ![a].booking = NoDraft]
            /\ conv' = [conv EXCEPT ![a] = END]
            /\ answer' = [answer EXCEPT ![a] = "booking_canceled"]
       ELSE IF data \notin DOMAIN ROOMS
       THEN /\ conv' = [conv EXCEPT ![a] = END]
            /\ answer' = [answer EXCEPT ![a] = "unknown_room"]
            /\ UNCHANGED user_data
       ELSE /\ user_data' = [user_data EXCEPT ![a].booking.room = ROOMS[data]]
            /\ conv' = [conv EXCEPT ![a] = BOOK_DATE]
            /\ UNCHANGED answer
    /\ UNCHANGED <<rows, sqlite_sequence, clock, ablock_conv, jobs, outbox, ran, made, GROUP_CHAT_ID, send_fails, log>>

\* book_choose_date without the check of the planning horizon
book_choose_date_no_horizon(a, text) ==
    LET d == parse_date(text) IN
    /\ conv[a] = BOOK_DATE
    /\ IF d = None \/ d < today
       THEN UNCHANGED <<conv, user_data>>
       ELSE /\ user_data' = [user_data EXCEPT ![a].booking.date = d]
            /\ conv' = [conv EXCEPT ![a] = BOOK_START]
    /\ UNCHANGED <<rows, sqlite_sequence, clock, ablock_conv, jobs, outbox, ran, made, answer, GROUP_CHAT_ID, send_fails, log>>

\* on acceptance the handler also lists get_bookings_for_day(room, d)
book_choose_date(a, text) ==
    LET d == parse_date(text) IN
    /\ conv[a] = BOOK_DATE
    /\ IF d = None \/ d < today \/ d > today + PLANNING_DAYS
       THEN UNCHANGED <<conv, user_data>>
       ELSE /\ user_data' = [user_data EXCEPT ![a].booking.date = d]
            /\ conv' = [conv EXCEPT ![a] = BOOK_START]
    /\ UNCHANGED <<rows, sqlite_sequence, clock, ablock_conv, jobs, outbox, ran, made, answer, GROUP_CHAT_ID, send_fails, log>>

\* book_choose_start without the check of the working hours
book_choose_start_any_hour(a, text) ==
    LET parsed == parse_time(text) IN
    /\ conv[a] = BOOK_START
    /\ IF parsed = <<>>
       THEN UNCHANGED <<conv, user_data>>
       ELSE /\ user_data' = [user_data EXCEPT ![a].booking.start_dt =
                                combine_date_time(user_data[a].booking.date, parsed[1], parsed[2])]
            /\ conv' = [conv EXCEPT ![a] = BOOK_END]
    /\ UNCHANGED <<rows, sqlite_sequence, clock, ablock_conv, jobs, outbox, ran, made, answer, GROUP_CHAT_ID, send_fails, log>>

book_choose_start(a, text) ==
    LET parsed == parse_time(text) IN
    /\ conv[a] = BOOK_START
    /\ IF parsed = <<>>
       THEN UNCHANGED <<conv, user_data>>
       ELSE IF parsed[1] < WORK_START_HOUR \/ parsed[1] >= WORK_END_HOUR
       THEN UNCHANGED <<conv, user_data>>
       ELSE /\ user_data' = [user_data EXCEPT ![a].booking.start_dt =
                                combine_date_time(user_data[a].booking.date, parsed[1], parsed[2])]
            /\ conv' = [conv EXCEPT ![a] = BOOK_END]
    /\ UNCHANGED <<rows, sqlite_sequence, clock, ablock_conv, jobs, outbox, ran, made, answer, GROUP_CHAT_ID, send_fails, log>>

\* book_choose_end without the check of the minimal duration
book_choose_end_no_min_duration(a, text) ==
    LET parsed == parse_time(text)
        b == user_data[a].booking
        end_dt == combine_date_time(b.date, parsed[1], parsed[2])
    IN
    /\ conv[a] = BOOK_END
    /\ IF parsed = <<>>
       THEN UNCHANGED <<conv, user_data>>
       ELSE IF parsed[1] <= WORK_START_HOUR /\ ~(parsed[1] = 0 /\ parsed[2] = 0)
       THEN UNCHANGED <<conv, user_data>>
       ELSE IF dt_to_ts(end_dt) <= dt_to_ts(b.start_dt)
       THEN UNCHANGED <<conv, user_data>>
       ELSE IF end_dt[2] > WORK_END_HOUR \/ (end_dt[2] = WORK_END_HOUR /\ end_dt[3] > 0)
       THEN UNCHANGED <<conv, user_data>>
       ELSE IF check_conflicts(b.room, b.start_dt, end_dt, None) # {}
       THEN /\ conv' = [conv EXCEPT ![a] = BOOK_START]
            /\ UNCHANGED user_data
       ELSE /\ user_data' = [user_data EXCEPT ![a].booking.end_dt = end_dt]
            /\ conv' = [conv EXCEPT ![a] = BOOK_TOPIC]
    /\ UNCHANGED <<rows, sqlite_sequence, clock, ablock_conv, jobs, outbox, ran, made, answer, GROUP_CHAT_ID, send_fails, log>>

\* book_choose_end that asks for the end time again when the interval is taken
book_choose_end_stays(a, text) ==
    LET parsed == parse_time(text)
        b == user_data[a].booking
        end_dt == combine_date_time(b.date, parsed[1], parsed[2])
    IN
    /\ conv[a] = BOOK_END
    /\ IF parsed = <<>>
       THEN UNCHANGED <<conv, user_data>>
       ELSE IF parsed[1] <= WORK_START_HOUR /\ ~(parsed[1] = 0 /\ parsed[2] = 0)
       THEN UNCHANGED <<conv, user_data>>
       ELSE IF dt_to_ts(end_dt) <= dt_to_ts(b.start_dt)
       THEN UNCHANGED <<conv, user_data>>
       ELSE IF dt_to_ts(end_dt) - dt_to_ts(b.start_dt) < MIN_DURATION_MINUTES
       THEN UNCHANGED <<conv, user_data>>
       ELSE IF end_dt[2] > WORK_END_HOUR \/ (end_dt[2] = WORK_END_HOUR /\ end_dt[3] > 0)
       THEN UNCHANGED <<conv, user_data>>
       ELSE IF check_conflicts(b.room, b.start_dt, end_dt, None) # {}
       THEN UNCHANGED <<conv, user_data>>
       ELSE /\ user_data' = [user_data EXCEPT ![a].booking.end_dt = end_dt]
            /\ conv' = [conv EXCEPT ![a] = BOOK_TOPIC]
    /\ UNCHANGED <<rows, sqlite_sequence, clock, ablock_conv, jobs, outbox, ran, made, answer, GROUP_CHAT_ID, send_fails, log>>

book_choose_end(a, text) ==
    LET parsed == parse_time(text)
        b == user_data[a].booking
        end_dt == combine_date_time(b.date, parsed[1], parsed[2])
    IN
    /\ conv[a] = BOOK_END
    /\ IF parsed = <<>>
       THEN UNCHANGED <<conv, user_data>>
       ELSE IF parsed[1] <= WORK_START_HOUR /\ ~(parsed[1] = 0 /\ parsed[2] = 0)
       THEN UNCHANGED <<conv, user_data>>
       ELSE IF dt_to_ts(end_dt) <= dt_to_ts(b.start_dt)
       THEN UNCHANGED <<conv, user_data>>
       ELSE IF dt_to_ts(end_dt) - dt_to_ts(b.start_dt) < MIN_DURATION_MINUTES
       THEN UNCHANGED <<conv, user_data>>
       ELSE IF end_dt[2] > WORK_END_HOUR \/ (end_dt[2] = WORK_END_HOUR /\ end_dt[3] > 0)
       THEN UNCHANGED <<conv, user_data>>
       ELSE IF check_conflicts(b.room, b.start_dt, end_dt, None) # {}
       THEN /\ conv' = [conv EXCEPT ![a] = BOOK_START]
            /\ UNCHANGED user_data
       ELSE /\ user_data' = [user_data EXCEPT ![a].booking.end_dt = end_dt]
            /\ conv' = [conv EXCEPT ![a] = BOOK_TOPIC]
    /\ UNCHANGED <<rows, sqlite_sequence, clock, ablock_conv, jobs, outbox, ran, made, answer, GROUP_CHAT_ID, send_fails, log>>

book_topic(a, text) ==
    LET t == strip(text)
        topic == IF t \in {"-", ""} THEN NoneText ELSE t
    IN
    /\ conv[a] = BOOK_TOPIC
    /\ user_data' = [user_data EXCEPT ![a].booking.topic = topic]
    /\ conv' = [conv EXCEPT ![a] = BOOK_NAME]
    /\ UNCHANGED <<rows, sqlite_sequence, clock, ablock_conv, jobs, outbox, ran, made, answer, GROUP_CHAT_ID, send_fails, log>>

book_name(a, text) ==
    LET full_name == strip(text) IN
    /\ conv[a] = BOOK_NAME
    /\ IF full_name = ""
       THEN UNCHANGED <<conv, user_data>>
       ELSE /\ user_data' = [user_data EXCEPT ![a].booking.user_full_name = full_name]
            /\ conv' = [conv EXCEPT ![a] = BOOK_CONTACT]
    /\ UNCHANGED <<rows, sqlite_sequence, clock, ablock_conv, jobs, outbox, ran, made, answer, GROUP_CHAT_ID, send_fails, log>>

\* book_contact that already inserts the record when it shows the summary
book_contact_inserts(a, text) ==
    LET t == strip(text)
        contact == IF t \in {"-", ""} /\ Username[a] # NoneText THEN Username[a] ELSE t
        b == user_data[a].booking
        created == create_booking(b.room, b.start_dt, b.end_dt, a, b.user_full_name, contact, b.topic, FALSE, NoneText)
    IN
    /\ conv[a] = BOOK_CONTACT
    /\ sqlite_sequence < MaxId
    /\ rows' = created[1]
    /\ sqlite_sequence' = created[2]
    /\ user_data' = [user_data EXCEPT ![a].booking.user_contact = contact]
    /\ conv' = [conv EXCEPT ![a] = BOOK_CONFIRM]
    /\ UNCHANGED <<clock, ablock_conv, jobs, outbox, ran, made, answer, GROUP_CHAT_ID, send_fails, log>>

book_contact(a, text) ==
    LET t == strip(text)
        contact == IF t \in {"-", ""} /\ Username[a] # NoneText THEN Username[a] ELSE t
    IN
    /\ conv[a] = BOOK_CONTACT
    /\ user_data' = [user_data EXCEPT ![a].booking.user_contact = contact]
    /\ conv' = [conv EXCEPT ![a] = BOOK_CONFIRM]
    /\ UNCHANGED <<rows, sqlite_sequence, clock, ablock_conv, jobs, outbox, ran, made, answer, GROUP_CHAT_ID, send_fails, log>>

\* confirm_reply without the second check_conflicts
confirm_reply_no_recheck(a, data) ==
    LET b == user_data[a].booking IN
    IF data = "CANCEL" THEN "booking_canceled"
    ELSE IF Falsy(b) THEN "draft_not_found"
    ELSE "booking_created"

\* confirm_reply with a suspension between the check and the insert: the
\* check ran on the table as it was before the last row was inserted
confirm_reply_checked_before_last_insert(a, data) ==
    LET b == user_data[a].booking
        s_ts == dt_to_ts(b.start_dt)
        e_ts == dt_to_ts(b.end_dt)
        seen == {r \in Table : r.id # sqlite_sequence}
    IN  IF data = "CANCEL" THEN "booking_canceled"
        ELSE IF Falsy(b) THEN "draft_not_found"
        ELSE IF {r \in seen : r.room = b.room /\ r.canceled = 0
                              /\ ~(r.end_ts <= s_ts \/ r.start_ts >= e_ts)} # {}
        THEN "time_just_taken"
        ELSE "booking_created"

\* the answer of book_confirm to the callback data (after the prefix "CONFIRM_")
confirm_reply(a, data) ==
    LET b == user_data[a].booking IN
    IF data = "CANCEL" THEN "booking_canceled"
    ELSE IF Falsy(b) THEN "draft_not_found"
    ELSE IF check_conflicts(b.room, b.start_dt, b.end_dt, None) # {} THEN "time_just_taken"
    ELSE "booking_created"

\* book_confirm that leaves the draft when the time was just taken
book_confirm_conflict_keeps_draft(a, data) ==
    LET b == user_data[a].booking
        created == create_booking(b.room, b.start_dt, b.end_dt, a, b.user_full_name, b.user_contact, b.topic, FALSE, NoneText)
    IN
    /\ conv[a] = BOOK_CONFIRM
    /\ conv' = [conv EXCEPT ![a] = END]
    /\ answer' = [answer EXCEPT ![a] = confirm_reply(a, data)]
    /\ IF confirm_reply(a, data) = "booking_canceled"
       THEN /\ user_data' = [user_data EXCEPT ![a].booking = NoDraft]
            /\ UNCHANGED <<rows, sqlite_sequence, jobs, made>>
       ELSE IF confirm_reply(a, data) \in {"draft_not_found", "time_just_taken"}
       THEN UNCHANGED <<rows, sqlite_sequence, jobs, user_data, made>>
       ELSE /\ sqlite_sequence < MaxId
            /\ rows' = created[1]
            /\ sqlite_sequence' = created[2]
            /\ jobs' = schedule_reminder_for_booking(jobs, {created[1][i] : i \in DOMAIN created[1]}, created[2])
            /\ user_data' = [user_data EXCEPT ![a].booking = NoDraft]
            /\ made' = [made EXCEPT ![a] = @ + Cardinality(DOMAIN created[1] \ Ids)]
    /\ UNCHANGED <<clock, ablock_conv, outbox, ran, GROUP_CHAT_ID, send_fails, log>>

\* book_confirm that inserts without the second check, keeps the draft and
\* stays in BOOK_CONFIRM
book_confirm_unguarded(a, data) ==
    LET b == user_data[a].booking
        created == create_booking(b.room, b.start_dt, b.end_dt, a, b.user_full_name, b.user_contact, b.topic, FALSE, NoneText)
    IN
    /\ conv[a] = BOOK_CONFIRM
    /\ IF data = "CANCEL"
       THEN /\ user_data' = [user_data EXCEPT ![a].booking = NoDraft]
            /\ conv' = [conv EXCEPT ![a] = END]
            /\ answer' = [answer EXCEPT ![a] = "booking_canceled"]
            /\ UNCHANGED <<rows, sqlite_sequence, jobs, made>>
       ELSE /\ sqlite_sequence < MaxId
            /\ rows' = created[1]
            /\ sqlite_sequence' = created[2]
            /\ jobs' = schedule_reminder_for_booking(jobs, {created[1][i] : i \in DOMAIN created[1]}, created[2])
            /\ made' = [made EXCEPT ![a] = @ + 1]
            /\ answer' = [answer EXCEPT ![a] = "booking_created"]
            /\ UNCHANGED <<conv, user_data>>
    /\ UNCHANGED <<clock, ablock_conv, outbox, ran, GROUP_CHAT_ID, send_fails, log>>

\* book_confirm that takes the row back when the answer to the user raises
book_confirm_undoes_on_failure(a, data) ==
    LET b == user_data[a].booking
        created == create_booking(b.room, b.start_dt, b.end_dt, a, b.user_full_name, b.user_contact, b.topic, FALSE, NoneText)
    IN
    /\ conv[a] = BOOK_CONFIRM
    /\ \/ /\ conv' = [conv EXCEPT ![a] = END]
          /\ answer' = [answer EXCEPT ![a] = confirm_reply(a, data)]
          /\ IF confirm_reply(a, data) = "booking_canceled"
             THEN /\ user_data' = [user_data EXCEPT ![a].booking = NoDraft]
                  /\ UNCHANGED <<rows, sqlite_sequence, jobs, made, log>>
             ELSE IF confirm_reply(a, data) = "draft_not_found"
             THEN UNCHANGED <<rows, sqlite_sequence, jobs, user_data, made, log>>
             ELSE IF confirm_reply(a, data) = "time_just_taken"
             THEN /\ user_data' = [user_data EXCEPT ![a].booking = NoDraft]
                  /\ UNCHANGED <<rows, sqlite_sequence, jobs, made, log>>
             ELSE /\ sqlite_sequence < MaxId
                  /\ rows' = created[1]
                  /\ sqlite_sequence' = created[2]
                  /\ jobs' = schedule_reminder_for_booking(jobs, {created[1][i] : i \in DOMAIN created[1]}, created[2])
                  /\ user_data' = [user_data EXCEPT ![a].booking = NoDraft]
                  /\ made' = [made EXCEPT ![a] = @ + Cardinality(DOMAIN created[1] \ Ids)]
                  /\ \/ log' = log
                     \/ /\ MayRaise /\ GROUP_CHAT_ID # None
                        /\ log' = log \cup {[at |-> "commit", chat_id |-> GROUP_CHAT_ID, booking_id |-> created[2]]}
       \/ /\ MayRaise
          /\ log' = log \cup {[at |-> "confirm", chat_id |-> a, booking_id |-> None]}
          /\ UNCHANGED <<conv, answer, user_data, rows, sqlite_sequence, jobs, made>>
       \/ /\ MayRaise
          /\ confirm_reply(a, data) = "booking_created"
          /\ sqlite_sequence < MaxId
          /\ sqlite_sequence' = created[2]
          /\ log' = log \cup {[at |-> "commit", chat_id |-> a, booking_id |-> created[2]]}
          /\ UNCHANGED <<conv, answer, user_data, rows, jobs, made>>
    /\ UNCHANGED <<clock, ablock_conv, outbox, ran, GROUP_CHAT_ID, send_fails>>

book_confirm(a, data) ==
    LET b == user_data[a].booking
        created == create_booking(b.room, b.start_dt, b.end_dt, a, b.user_full_name, b.user_contact, b.topic, FALSE, NoneText)
    IN
    /\ conv[a] = BOOK_CONFIRM
    /\ \/ \* no call raises, or only the message to the shared chat (in try / except)
          /\ conv' = [conv EXCEPT ![a] = END]
          /\ answer' = [answer EXCEPT ![a] = confirm_reply(a, data)]
          /\ IF confirm_reply(a, data) = "booking_canceled"
             THEN /\ user_data' = [user_data EXCEPT ![a].booking = NoDraft]
                  /\ UNCHANGED <<rows, sqlite_sequence, jobs, made, log>>
             ELSE IF confirm_reply(a, data) = "draft_not_found"
             THEN UNCHANGED <<rows, sqlite_sequence, jobs, user_data, made, log>>
             ELSE IF confirm_reply(a, data) = "time_just_taken"
             THEN /\ user_data' = [user_data EXCEPT ![a].booking = NoDraft]
                  /\ UNCHANGED <<rows, sqlite_sequence, jobs, made, log>>
             ELSE /\ sqlite_sequence < MaxId
                  /\ rows' = created[1]
                  /\ sqlite_sequence' = created[2]
                  /\ jobs' = schedule_reminder_for_booking(jobs, {created[1][i] : i \in DOMAIN created[1]}, created[2])
                  /\ user_data' = [user_data EXCEPT ![a].booking = NoDraft]
                  /\ made' = [made EXCEPT ![a] = @ + Cardinality(DOMAIN created[1] \ Ids)]
                  /\ \/ log' = log
                     \/ /\ MayRaise /\ GROUP_CHAT_ID # None
                        /\ log' = log \cup {[at |-> "commit", chat_id |-> GROUP_CHAT_ID, booking_id |-> created[2]]}
       \/ \* query.answer or the answer to the user raises before anything is written
          /\ MayRaise
          /\ log' = log \cup {[at |-> "confirm", chat_id |-> a, booking_id |-> None]}
          /\ UNCHANGED <<conv, answer, user_data, rows, sqlite_sequence, jobs, made>>
       \/ \* the row is inserted and the job armed, then the answer to the user raises
          /\ MayRaise
          /\ confirm_reply(a, data) = "booking_created"
          /\ sqlite_sequence < MaxId
          /\ rows' = created[1]
          /\ sqlite_sequence' = created[2]
          /\ jobs' = schedule_reminder_for_booking(jobs, {created[1][i] : i \in DOMAIN created[1]}, created[2])
          /\ made' = [made EXCEPT ![a] = @ + Cardinality(DOMAIN created[1] \ Ids)]
          /\ log' = log \cup {[at |-> "commit", chat_id |-> a, booking_id |-> created[2]]}
          /\ UNCHANGED <<conv, answer, user_data>>
    /\ UNCHANGED <<clock, ablock_conv, outbox, ran, GROUP_CHAT_ID, send_fails>>

\* book_cancel_command that ends the dialog and leaves the draft
book_cancel_command_keeps_draft(a) ==
    /\ conv[a] # END
    /\ conv' = [conv EXCEPT ![a] = END]
    /\ answer' = [answer EXCEPT ![a] = "booking_dialog_aborted"]
    /\ UNCHANGED <<rows, sqlite_sequence, clock, ablock_conv, user_data, jobs, outbox, ran, made, GROUP_CHAT_ID, send_fails, log>>

\* fallback /cancel of booking_conversation
book_cancel_command(a) ==
    /\ conv[a] # END
    /\ user_data' = [user_data EXCEPT ![a].booking = NoDraft]
    /\ conv' = [conv EXCEPT ![a] = END]
    /\ answer' = [answer EXCEPT ![a] = "booking_dialog_aborted"]
    /\ UNCHANGED <<rows, sqlite_sequence, clock, ablock_conv, jobs, outbox, ran, made, GROUP_CHAT_ID, send_fails, log>>

(***************************************************************************)
(* /cancel_booking <ID>                                                    *)
(* args is <<"none", 0>> (no argument), <<"text", 0>> (not a number) or    *)
(* <<"int", n>>                                                            *)
(***************************************************************************)
\* cancel_reply that does not look at the canceled flag of the row
cancel_reply_no_canceled_check(a, args) ==
    LET found == get_booking(args[2])
        row == CHOOSE r \in found : TRUE
    IN  IF args[1] = "none" THEN "usage"
        ELSE IF args[1] = "text" THEN "id_must_be_number"
        ELSE IF found = {} THEN "booking_not_found"
        ELSE IF row.user_id # a /\ ~is_admin(a) THEN "not_your_booking"
        ELSE IF now >= dt_to_ts(ts_to_dt(row.start_ts)) THEN "already_started"
        ELSE "booking_canceled_ok"

\* cancel_reply without the owner / admin check
cancel_reply_no_owner_check(a, args) ==
    LET found == get_booking(args[2])
        row == CHOOSE r \in found : TRUE
    IN  IF args[1] = "none" THEN "usage"
        ELSE IF args[1] = "text" THEN "id_must_be_number"
        ELSE IF found = {} \/ row.canceled # 0 THEN "booking_not_found"
        ELSE IF now >= dt_to_ts(ts_to_dt(row.start_ts)) THEN "already_started"
        ELSE "booking_canceled_ok"

\* cancel_reply that lets anybody cancel a row that has no owner
cancel_reply_ownerless_open(a, args) ==
    LET found == get_booking(args[2])
        row == CHOOSE r \in found : TRUE
    IN  IF args[1] = "none" THEN "usage"
        ELSE IF args[1] = "text" THEN "id_must_be_number"
        ELSE IF found = {} \/ row.canceled # 0 THEN "booking_not_found"
        ELSE IF row.user_id # None /\ row.user_id # a /\ ~is_admin(a) THEN "not_your_booking"
        ELSE IF now >= dt_to_ts(ts_to_dt(row.start_ts)) THEN "already_started"
        ELSE "booking_canceled_ok"

\* the answer of cancel_booking_command
cancel_reply(a, args) ==
    LET found == get_booking(args[2])
        row == CHOOSE r \in found : TRUE
    IN  IF args[1] = "none" THEN "usage"
        ELSE IF args[1] = "text" THEN "id_must_be_number"
        ELSE IF found = {} \/ row.canceled # 0 THEN "booking_not_found"
        ELSE IF row.user_id # a /\ ~is_admin(a) THEN "not_your_booking"
        ELSE IF now >= dt_to_ts(ts_to_dt(row.start_ts)) THEN "already_started"
        ELSE "booking_canceled_ok"

\* cancel_booking_command that also takes the job of the record off the queue
cancel_booking_command_removes_job(a, args) ==
    /\ IF cancel_reply(a, args) = "booking_canceled_ok"
       THEN /\ rows' = cancel_booking(args[2])
            /\ jobs' = [j \in {x \in BagToSet(jobs) : x.booking_id # args[2]} |-> jobs[j]]
       ELSE UNCHANGED <<rows, jobs>>
    /\ UNCHANGED <<sqlite_sequence, clock, conv, ablock_conv, user_data, outbox, ran, made, answer, GROUP_CHAT_ID, send_fails, log>>

cancel_booking_command(a, args) ==
    /\ \/ \* no call raises, or only the message to the shared chat (in try / except)
          /\ IF cancel_reply(a, args) = "booking_canceled_ok"
             THEN /\ rows' = cancel_booking(args[2])
                  /\ \/ log' = log
                     \/ /\ MayRaise /\ GROUP_CHAT_ID # None
                        /\ log' = log \cup {[at |-> "cancel", chat_id |-> GROUP_CHAT_ID, booking_id |-> args[2]]}
             ELSE UNCHANGED <<rows, log>>
       \/ \* the answer to the user raises: after the UPDATE when the record is canceled
          /\ MayRaise
          /\ IF cancel_reply(a, args) = "booking_canceled_ok"
             THEN /\ rows' = cancel_booking(args[2])
                  /\ log' = log \cup {[at |-> "cancel", chat_id |-> a, booking_id |-> args[2]]}
             ELSE /\ rows' = rows
                  /\ log' = log \cup {[at |-> "cancel_refused", chat_id |-> a, booking_id |-> None]}
    /\ UNCHANGED <<sqlite_sequence, clock, conv, ablock_conv, user_data, jobs, outbox, ran, made, answer, GROUP_CHAT_ID, send_fails>>

(***************************************************************************)
(* Admin-block conversation                                                *)
(***************************************************************************)
\* A text message is handled by the first conversation that is waiting for
\* a text; booking_conversation is registered before admin_block_conversation.
TextGoesToBooking(a) == conv[a] \in BOOK_DATE..BOOK_CONTACT

admin_block_start(a) ==
    /\ ablock_conv[a] = END
    /\ IF ~is_admin(a)
       THEN UNCHANGED <<ablock_conv, user_data>>
       ELSE /\ user_data' = [user_data EXCEPT ![a].ablock = EmptyDraft]
            /\ ablock_conv' = [ablock_conv EXCEPT ![a] = ADMIN_BLOCK_ROOM]
    /\ UNCHANGED <<rows, sqlite_sequence, clock, conv, jobs, outbox, ran, made, answer, GROUP_CHAT_ID, send_fails, log>>

\* data is the callback data after the prefix "AB_"
admin_block_choose_room(a, data) ==
    /\ ablock_conv[a] = ADMIN_BLOCK_ROOM
    /\ IF data = "CANCEL"
       THEN /\ user_data' = [user_data EXCEPT ![a].ablock = NoDraft]
            /\ ablock_conv' = [ablock_conv EXCEPT ![a] = END]
       ELSE IF data \notin DOMAIN ROOMS
       THEN /\ ablock_conv' = [ablock_conv EXCEPT ![a] = END]
            /\ UNCHANGED user_data
       ELSE /\ user_data' = [user_data EXCEPT ![a].ablock.room = ROOMS[data]]
            /\ ablock_conv' = [ablock_conv EXCEPT ![a] = ADMIN_BLOCK_DATE]
    /\ UNCHANGED <<rows, sqlite_sequence, clock, conv, jobs, outbox, ran, made, answer, GROUP_CHAT_ID, send_fails, log>>

admin_block_choose_date(a, text) ==
    LET d == parse_date(text) IN
    /\ ablock_conv[a] = ADMIN_BLOCK_DATE
    /\ ~TextGoesToBooking(a)
    /\ IF d = None
       THEN UNCHANGED <<ablock_conv, user_data>>
       ELSE /\ user_data' = [user_data EXCEPT ![a].ablock.date = d]
            /\ ablock_conv' = [ablock_conv EXCEPT ![a] = ADMIN_BLOCK_START]
    /\ UNCHANGED <<rows, sqlite_sequence, clock, conv, jobs, outbox, ran, made, answer, GROUP_CHAT_ID, send_fails, log>>

admin_block_choose_start(a, text) ==
    LET parsed == parse_time(text) IN
    /\ ablock_conv[a] = ADMIN_BLOCK_START
    /\ ~TextGoesToBooking(a)
    /\ IF parsed = <<>>
       THEN UNCHANGED <<ablock_conv, user_data>>
       ELSE /\ user_data' = [user_data EXCEPT ![a].ablock.start_dt =
                                combine_date_time(user_data[a].ablock.date, parsed[1], parsed[2])]
            /\ ablock_conv' = [ablock_conv EXCEPT ![a] = ADMIN_BLOCK_END]
    /\ UNCHANGED <<rows, sqlite_sequence, clock, conv, jobs, outbox, ran, made, answer, GROUP_CHAT_ID, send_fails, log>>

\* admin_block_choose_end without the conflict check
admin_block_choose_end_no_conflict_check(a, text) ==
    LET parsed == parse_time(text)
        ab == user_data[a].ablock
        end_dt == combine_date_time(ab.date, parsed[1], parsed[2])
    IN
    /\ ablock_conv[a] = ADMIN_BLOCK_END
    /\ ~TextGoesToBooking(a)
    /\ IF parsed = <<>>
       THEN UNCHANGED <<ablock_conv, user_data>>
       ELSE IF dt_to_ts(end_dt) <= dt_to_ts(ab.start_dt)
       THEN UNCHANGED <<ablock_conv, user_data>>
       ELSE /\ user_data' = [user_data EXCEPT ![a].ablock.end_dt = end_dt]
            /\ ablock_conv' = [ablock_conv EXCEPT ![a] = ADMIN_BLOCK_REASON]
    /\ UNCHANGED <<rows, sqlite_sequence, clock, conv, jobs, outbox, ran, made, answer, GROUP_CHAT_ID, send_fails, log>>

admin_block_choose_end(a, text) ==
    LET parsed == parse_time(text)
        ab == user_data[a].ablock
        end_dt == combine_date_time(ab.date, parsed[1], parsed[2])
    IN
    /\ ablock_conv[a] = ADMIN_BLOCK_END
    /\ ~TextGoesToBooking(a)
    /\ IF parsed = <<>>
       THEN UNCHANGED <<ablock_conv, user_data>>
       ELSE IF dt_to_ts(end_dt) <= dt_to_ts(ab.start_dt)
       THEN UNCHANGED <<ablock_conv, user_data>>
       ELSE IF check_conflicts(ab.room, ab.start_dt, end_dt, None) # {}
       THEN UNCHANGED <<ablock_conv, user_data>>
       ELSE /\ user_data' = [user_data EXCEPT ![a].ablock.end_dt = end_dt]
            /\ ablock_conv' = [ablock_conv EXCEPT ![a] = ADMIN_BLOCK_REASON]
    /\ UNCHANGED <<rows, sqlite_sequence, clock, conv, jobs, outbox, ran, made, answer, GROUP_CHAT_ID, send_fails, log>>

\* admin_block_reason that checks for conflicts again and gives up on one
admin_block_reason_rechecks(a, text) ==
    LET reason == IF strip(text) = "" THEN "block" ELSE strip(text)
        ab == user_data[a].ablock
        created == create_booking(ab.room, ab.start_dt, ab.end_dt, None, NoneText, NoneText, NoneText, TRUE, reason)
    IN
    /\ ablock_conv[a] = ADMIN_BLOCK_REASON
    /\ ~TextGoesToBooking(a)
    /\ IF check_conflicts(ab.room, ab.start_dt, ab.end_dt, None) # {}
       THEN UNCHANGED <<rows, sqlite_sequence>>
       ELSE /\ sqlite_sequence < MaxId
            /\ rows' = created[1]
            /\ sqlite_sequence' = created[2]
    /\ user_data' = [user_data EXCEPT ![a].ablock = NoDraft]
    /\ ablock_conv' = [ablock_conv EXCEPT ![a] = END]
    /\ UNCHANGED <<clock, conv, jobs, outbox, ran, made, answer, GROUP_CHAT_ID, send_fails, log>>

admin_block_reason(a, text) ==
    LET reason == IF strip(text) = "" THEN "block" ELSE strip(text)
        ab == user_data[a].ablock
        created == create_booking(ab.room, ab.start_dt, ab.end_dt, None, NoneText, NoneText, NoneText, TRUE, reason)
    IN
    /\ ablock_conv[a] = ADMIN_BLOCK_REASON
    /\ ~TextGoesToBooking(a)
    /\ sqlite_sequence < MaxId
    /\ rows' = created[1]
    /\ sqlite_sequence' = created[2]
    /\ user_data' = [user_data EXCEPT ![a].ablock = NoDraft]
    /\ ablock_conv' = [ablock_conv EXCEPT ![a] = END]
    /\ UNCHANGED <<clock, conv, jobs, outbox, ran, made, answer, GROUP_CHAT_ID, send_fails, log>>

\* fallback /cancel of admin_block_conversation; booking_conversation takes
\* the command when the user is inside it
busy_cancel_command(a) ==
    /\ conv[a] = END
    /\ ablock_conv[a] # END
    /\ ablock_conv' = [ablock_conv EXCEPT ![a] = END]
    /\ UNCHANGED <<rows, sqlite_sequence, clock, conv, user_data, jobs, outbox, ran, made, answer, GROUP_CHAT_ID, send_fails, log>>

(***************************************************************************)
(* Reminder jobs                                                           *)
(***************************************************************************)
\* reminder_messages that does not look at the canceled flag of the row
reminder_messages_no_canceled_check(booking_id) ==
    LET found == get_booking(booking_id)
        row == CHOOSE r \in found : TRUE
    IN  IF found = {} THEN EmptyBag
        ELSE IF row.is_block # 0 THEN EmptyBag
        ELSE IF now >= dt_to_ts(ts_to_dt(row.start_ts)) THEN EmptyBag
        ELSE (IF row.user_id # None /\ row.user_id # 0
              THEN SetToBag({[chat_id |-> row.user_id, booking_id |-> booking_id]})
              ELSE EmptyBag)
             (+)
             (IF GROUP_CHAT_ID # None
              THEN SetToBag({[chat_id |-> GROUP_CHAT_ID, booking_id |-> booking_id]})
              ELSE EmptyBag)

\* reminder_messages without the message to the shared chat
reminder_messages_owner_only(booking_id) ==
    LET found == get_booking(booking_id)
        row == CHOOSE r \in found : TRUE
    IN  IF found = {} THEN EmptyBag
        ELSE IF row.canceled # 0 \/ row.is_block # 0 THEN EmptyBag
        ELSE IF now >= dt_to_ts(ts_to_dt(row.start_ts)) THEN EmptyBag
        ELSE IF row.user_id # None /\ row.user_id # 0
        THEN SetToBag({[chat_id |-> row.user_id, booking_id |-> booking_id]})
        ELSE EmptyBag

\* the messages reminder_job sends for the job's booking
reminder_messages(booking_id) ==
    LET found == get_booking(booking_id)
        row == CHOOSE r \in found : TRUE
    IN  IF found = {} THEN EmptyBag
        ELSE IF row.canceled # 0 \/ row.is_block # 0 THEN EmptyBag
        ELSE IF now >= dt_to_ts(ts_to_dt(row.start_ts)) THEN EmptyBag
        ELSE (IF row.user_id # None /\ row.user_id # 0
              THEN SetToBag({[chat_id |-> row.user_id, booking_id |-> booking_id]})
              ELSE EmptyBag)
             (+)
             (IF GROUP_CHAT_ID # None
              THEN SetToBag({[chat_id |-> GROUP_CHAT_ID, booking_id |-> booking_id]})
              ELSE EmptyBag)

\* a job of the queue runs once, at or after its time; both send_message
\* calls are in try / except, a call that raises is logged
reminder_job(j) ==
    /\ BagIn(j, jobs)
    /\ clock >= j.when
    /\ jobs' = jobs (-) SetToBag({j})
    /\ outbox' = outbox (+) reminder_messages(j.booking_id)
    /\ ran' = ran \cup {j.booking_id}
    /\ \E raised \in (IF MayRaise THEN SUBSET BagToSet(reminder_messages(j.booking_id)) ELSE {{}}) :
           log' = log \cup {[at |-> "fire", chat_id |-> m.chat_id, booking_id |-> m.booking_id] : m \in raised}
    /\ UNCHANGED <<rows, sqlite_sequence, clock, conv, ablock_conv, user_data, made, answer, GROUP_CHAT_ID, send_fails>>

\* the loop that ends after the first row
ScheduleFirstOnly(q, tbl, todo) ==
    IF todo = {} THEN q
    ELSE LET r == CHOOSE x \in todo : TRUE
         IN  schedule_reminder_for_booking(q, tbl, r.id)

\* the loop of reschedule_all_booking_reminders over the selected rows
RECURSIVE ScheduleEach(_, _, _)
ScheduleEach(q, tbl, todo) ==
    IF todo = {} THEN q
    ELSE LET r == CHOOSE x \in todo : TRUE
         IN  ScheduleEach(schedule_reminder_for_booking(q, tbl, r.id), tbl, todo \ {r})

\* reschedule_all_booking_reminders without the removal of the old jobs
reschedule_all_no_removal ==
    LET selected == {r \in get_future_bookings : ~(r.canceled # 0 \/ r.is_block # 0)}
    IN  <<ScheduleEach(jobs, Table, selected), Cardinality(selected)>>

\* reschedule_all_booking_reminders: <<new job queue, count>>.  Every job of
\* the queue is named reminder_<id>, so the removal loop empties the queue.
reschedule_all_booking_reminders ==
    LET selected == {r \in get_future_bookings : ~(r.canceled # 0 \/ r.is_block # 0)}
    IN  <<ScheduleEach(EmptyBag, Table, selected), Cardinality(selected)>>

admin_reschedule_reminders(a) ==
    /\ IF ~is_admin(a)
       THEN UNCHANGED jobs
       ELSE jobs' = reschedule_all_booking_reminders[1]
    /\ UNCHANGED <<rows, sqlite_sequence, clock, conv, ablock_conv, user_data, outbox, ran, made, answer, GROUP_CHAT_ID, send_fails, log>>

\* post_init that does not skip the blocks
post_init_arms_blocks ==
    LET selected == {r \in get_future_bookings :
                        ~(r.canceled # 0)
                        /\ (dt_to_ts(ts_to_dt(r.start_ts)) - DAY) - now > 0}
    IN  SetToBag({Job(r.id, now + ((dt_to_ts(ts_to_dt(r.start_ts)) - DAY) - now)) : r \in selected})

\* post_init on a queue that has kept the jobs of the stopped process
post_init_keeps_queue ==
    LET selected == {r \in get_future_bookings :
                        ~(r.canceled # 0 \/ r.is_block # 0)
                        /\ (dt_to_ts(ts_to_dt(r.start_ts)) - DAY) - now > 0}
    IN  jobs (+) SetToBag({Job(r.id, now + ((dt_to_ts(ts_to_dt(r.start_ts)) - DAY) - now)) : r \in selected})

\* post_init: the job queue after start-up
post_init ==
    LET selected == {r \in get_future_bookings :
                        ~(r.canceled # 0 \/ r.is_block # 0)
                        /\ (dt_to_ts(ts_to_dt(r.start_ts)) - DAY) - now > 0}
    IN  SetToBag({Job(r.id, now + ((dt_to_ts(ts_to_dt(r.start_ts)) - DAY) - now)) : r \in selected})

(***************************************************************************)
(* Export and import of the table as CSV.  A cell of an integer column is  *)
(* [kind, val]: the decimal text of val, the empty text, or a text that is *)
(* no number.  A cell of a text column is the text.  A file is             *)
(* [fieldnames_ok, lines].                                                 *)
(***************************************************************************)
EmptyCell == [kind |-> "empty", val |-> 0]
JunkCell == [kind |-> "junk", val |-> 0]
\* csv.writer writes None as the empty text and an integer as its digits
IntCell(v) == IF v = None THEN EmptyCell ELSE [kind |-> "num", val |-> v]
TextCell(t) == IF t = NoneText THEN "" ELSE t

RECURSIVE InIdOrder(_, _)
\* the rows of table f with ids S, by increasing id (SELECT * FROM bookings)
InIdOrder(f, S) ==
    IF S = {} THEN <<>>
    ELSE LET m == CHOOSE i \in S : \A k \in S : i <= k
         IN  <<f[m]>> \o InIdOrder(f, S \ {m})

csv_line(r) ==
    [id |-> IntCell(r.id), room |-> TextCell(r.room),
     start_ts |-> IntCell(r.start_ts), end_ts |-> IntCell(r.end_ts),
     user_id |-> IntCell(r.user_id), user_full_name |-> TextCell(r.user_full_name),
     user_contact |-> TextCell(r.user_contact), topic |-> TextCell(r.topic),
     is_block |-> IntCell(r.is_block), block_reason |-> TextCell(r.block_reason),
     canceled |-> IntCell(r.canceled), canceled_at |-> IntCell(r.canceled_at),
     created_at |-> IntCell(r.created_at)]

NoFile == [fieldnames_ok |-> FALSE, lines |-> <<>>]

\* export_bookings: the document sent to the admin, NoFile when none is sent
export_bookings(a) ==
    IF ~is_admin(a) THEN NoFile
    ELSE IF get_all_bookings = {} THEN NoFile
    ELSE [fieldnames_ok |-> TRUE,
          lines |-> [k \in 1..Cardinality(Ids) |-> csv_line(InIdOrder(rows, Ids)[k])]]

\* to_int of import_bookings_file; int() raises on a text that is no number
to_int_raises(cell) == cell.kind = "junk"
to_int(cell, allow_none) ==
    IF cell.kind = "empty" THEN (IF allow_none THEN None ELSE 0) ELSE cell.val

\* the values import_bookings_file inserts for one line (the id column of
\* the file is not among them), with the id the table assigns
import_row(line, id) ==
    [id |-> id, room |-> line.room,
     start_ts |-> to_int(line.start_ts, FALSE), end_ts |-> to_int(line.end_ts, FALSE),
     user_id |-> to_int(line.user_id, TRUE),
     user_full_name |-> line.user_full_name, user_contact |-> line.user_contact,
     topic |-> line.topic,
     is_block |-> to_int(line.is_block, FALSE), block_reason |-> line.block_reason,
     canceled |-> to_int(line.canceled, FALSE),
     canceled_at |-> to_int(line.canceled_at, TRUE),
     created_at |-> to_int(line.created_at, TRUE)]

\* a line raises: int() on a bad number, or created_at NULL (NOT NULL column)
line_raises(line) ==
    \/ \E c \in {"start_ts", "end_ts", "user_id", "is_block", "canceled",
                 "canceled_at", "created_at"} : to_int_raises(line[c])
    \/ to_int(line.created_at, TRUE) = None

RECURSIVE import_loop(_, _, _, _)
\* the try block of import_bookings_file from line k on, in the open
\* transaction with table tbl and counter seq: <<raised, table, counter>>
import_loop(tbl, seq, lines, k) ==
    IF k > Len(lines) THEN <<FALSE, tbl, seq>>
    ELSE IF line_raises(lines[k]) THEN <<TRUE, tbl, seq>>
    ELSE import_loop(tbl @@ ((seq + 1) :> import_row(lines[k], seq + 1)), seq + 1, lines, k + 1)

\* the transaction on a table that numbers its rows from 1 when it is empty
\* (no AUTOINCREMENT counter kept across DELETE)
import_transaction_restart_ids(lines) ==
    LET done == import_loop(<<>>, 0, lines, 1)
    IN  IF done[1] THEN <<TRUE, rows, sqlite_sequence>>
        ELSE <<FALSE, done[2], IF done[3] > sqlite_sequence THEN done[3] ELSE sqlite_sequence>>

\* the transaction made visible after DELETE FROM bookings, before the
\* inserts: the table that another handler would find if the import were
\* suspended between the clearing and the repopulation
import_transaction_seen_after_delete(lines) ==
    <<FALSE, <<>>, sqlite_sequence>>

\* the transaction that inserts every line under the id written in the file
import_transaction_keeps_file_ids(lines) ==
    LET ids == {lines[k].id.val : k \in DOMAIN lines}
        line_of(i) == lines[CHOOSE k \in DOMAIN lines : lines[k].id.val = i]
    IN  IF \E k \in DOMAIN lines : line_raises(lines[k])
        THEN <<TRUE, rows, sqlite_sequence>>
        ELSE <<FALSE, [i \in ids |-> import_row(line_of(i), i)], sqlite_sequence>>

\* the transaction of import_bookings_file: DELETE FROM bookings, the
\* inserts, then commit, or rollback when a line raised:
\* <<raised, table, counter>>
import_transaction(lines) ==
    LET done == import_loop(<<>>, sqlite_sequence, lines, 1)
    IN  IF done[1] THEN <<TRUE, rows, sqlite_sequence>> ELSE done

import_bookings_start(a) ==
    /\ IF ~is_admin(a)
       THEN UNCHANGED user_data
       ELSE user_data' = [user_data EXCEPT ![a].awaiting_import_bookings = TRUE]
    /\ UNCHANGED <<rows, sqlite_sequence, clock, conv, ablock_conv, jobs, outbox, ran, made, answer, GROUP_CHAT_ID, send_fails, log>>

\* file is a document whose name ends with .csv (the filter of the handler)
import_bookings_file(a, file) ==
    /\ IF ~is_admin(a) \/ ~user_data[a].awaiting_import_bookings \/ ~file.fieldnames_ok
       THEN UNCHANGED <<rows, sqlite_sequence, user_data>>
       ELSE /\ import_transaction(file.lines)[3] <= MaxSeq
            /\ rows' = import_transaction(file.lines)[2]
            /\ sqlite_sequence' = import_transaction(file.lines)[3]
            /\ user_data' = [user_data EXCEPT ![a].awaiting_import_bookings = FALSE]
    /\ UNCHANGED <<clock, conv, ablock_conv, jobs, outbox, ran, made, answer, GROUP_CHAT_ID, send_fails, log>>

(***************************************************************************)
(* Process and clock                                                       *)
(***************************************************************************)
\* The process stops and main() runs again: conversations, drafts and jobs
\* live in memory and are lost, the table is kept, post_init re-arms.
Restart ==
    /\ conv' = [u \in Users |-> END]
    /\ ablock_conv' = [u \in Users |-> END]
    /\ user_data' = [u \in Users |-> [booking |-> NoDraft, ablock |-> NoDraft, awaiting_import_bookings |-> FALSE]]
    /\ made' = [u \in Users |-> 0]
    /\ answer' = [u \in Users |-> "none"]
    /\ jobs' = post_init
    /\ UNCHANGED <<rows, sqlite_sequence, clock, outbox, ran, GROUP_CHAT_ID, send_fails, log>>

\* The transport becomes unreliable or reliable again.  While send_fails
\* holds a call of the Bot API in book_confirm, cancel_booking_command and
\* reminder_job may raise; the other handlers are modelled with calls that
\* succeed.
Network ==
    /\ send_fails' = ~send_fails
    /\ UNCHANGED <<rows, sqlite_sequence, clock, conv, ablock_conv, user_data, jobs, outbox, ran, made, answer, GROUP_CHAT_ID, log>>

\* the instants the clock visits: 09:00 of day 1, then 10:30 of every day
ClockPoints == {DAY + 540} \cup {d * DAY + 630 : d \in 1..MaxDay}

Tick ==
    /\ \E t \in ClockPoints : t > clock /\ clock' = t
    /\ UNCHANGED <<rows, sqlite_sequence, conv, ablock_conv, user_data, jobs, outbox, ran, made, answer, GROUP_CHAT_ID, send_fails, log>>

(***************************************************************************)
(* Inputs of the users                                                     *)
(***************************************************************************)
RoomData == {"ROOM3", "CANCEL"}
DateTexts == {"D2", "junk"}
StartTexts == {<<10, 0>>, <<5, 0>>, <<24, 0>>}
EndTexts == {<<11, 0>>, <<10, 5>>, <<10, 0>>, <<6, 30>>, <<10, 60>>}
TopicTexts == {"-"}
NameTexts == {" ", "Ann"}
ContactTexts == {"-"}
ReasonTexts == {" "}
ConfirmData == {"OK", "CANCEL"}
CancelArgs == {<<"none", 0>>, <<"text", 0>>} \cup {<<"int", n>> : n \in 1..(MaxId + 1)}

(***************************************************************************)
(* Specification Spec: user 1 books, the admin (user 2) blocks             *)
(***************************************************************************)
Init ==
    /\ rows = <<>>
    /\ sqlite_sequence = 0
    /\ clock = DAY + 540
    /\ conv = [u \in Users |-> END]
    /\ ablock_conv = [u \in Users |-> END]
    /\ user_data = [u \in Users |-> [booking |-> NoDraft, ablock |-> NoDraft, awaiting_import_bookings |-> FALSE]]
    /\ jobs = EmptyBag
    /\ outbox = EmptyBag
    /\ ran = {}
    /\ made = [u \in Users |-> 0]
    /\ answer = [u \in Users |-> "none"]
    /\ GROUP_CHAT_ID = GroupChat
    /\ send_fails = FALSE
    /\ log = {}

\* the steps of the booking dialog of user a
Booking(a) ==
    \/ book_start(a)
    \/ \E data \in RoomData : book_choose_room(a, data)
    \/ \E text \in DateTexts : book_choose_date(a, text)
    \/ \E text \in StartTexts : book_choose_start(a, text)
    \/ \E text \in EndTexts : book_choose_end(a, text)
    \/ \E text \in TopicTexts : book_topic(a, text)
    \/ \E text \in NameTexts : book_name(a, text)
    \/ \E text \in ContactTexts : book_contact(a, text)
    \/ \E data \in ConfirmData : book_confirm(a, data)
    \/ book_cancel_command(a)

\* the steps of the admin-block dialog of user a
Blocking(a) ==
    \/ admin_block_start(a)
    \/ \E data \in RoomData : admin_block_choose_room(a, data)
    \/ \E text \in DateTexts : admin_block_choose_date(a, text)
    \/ \E text \in StartTexts : admin_block_choose_start(a, text)
    \/ \E text \in EndTexts : admin_block_choose_end(a, text)
    \/ \E text \in ReasonTexts : admin_block_reason(a, text)
    \/ busy_cancel_command(a)

\* commands, jobs, restarts and the clock
Other ==
    \/ \E a \in Users, args \in CancelArgs : cancel_booking_command(a, args)
    \/ \E a \in Users : admin_reschedule_reminders(a)
    \/ \E j \in BagToSet(jobs) : reminder_job(j)
    \/ Restart
    \/ Tick

Next ==
    \/ Booking(1)
    \/ \E a \in Users : Blocking(a)
    \/ Other

Spec == Init /\ [][Next]_vars

(***************************************************************************)
(* Specification SpecRace: both users book, nobody blocks                  *)
(***************************************************************************)
NextRace ==
    \/ \E a \in Users : Booking(a)
    \/ Other

SpecRace == Init /\ [][NextRace]_vars

(***************************************************************************)
(* Specification SpecStore: the methods of BookingStorage called directly  *)
(* with arguments from bounded sets, to reach every small table content    *)
(***************************************************************************)
StoreRooms == {ROOMS[k] : k \in DOMAIN ROOMS}
StoreTimes == {<<2, 10, 0>>, <<2, 11, 0>>, <<2, 12, 0>>}

StoreCreate ==
    \E room \in StoreRooms, s \in StoreTimes, e \in StoreTimes, u \in {1, None} :
        /\ dt_to_ts(s) < dt_to_ts(e)
        /\ Cardinality(Ids) < MaxId /\ sqlite_sequence < MaxSeq
        /\ rows' = create_booking(room, s, e, u, NoneText, NoneText, NoneText, u = None, NoneText)[1]
        /\ sqlite_sequence' = create_booking(room, s, e, u, NoneText, NoneText, NoneText, u = None, NoneText)[2]
        /\ UNCHANGED <<clock, conv, ablock_conv, user_data, jobs, outbox, ran, made, answer, GROUP_CHAT_ID, send_fails, log>>

StoreCancel ==
    \E id \in Ids :
        /\ rows' = cancel_booking(id)
        /\ UNCHANGED <<sqlite_sequence, clock, conv, ablock_conv, user_data, jobs, outbox, ran, made, answer, GROUP_CHAT_ID, send_fails, log>>

NextStore == StoreCreate \/ StoreCancel

SpecStore == Init /\ [][NextStore]_vars

(***************************************************************************)
(* Specification SpecImport: rows come from storage calls; the admin       *)
(* exports the table and imports files                                     *)
(***************************************************************************)
\* the export with the number of the last line's end_ts made unreadable
CorruptLast(file) ==
    [file EXCEPT !.lines[Len(file.lines)].end_ts = JunkCell]
\* the export with the first line's created_at emptied
NoCreatedAt(file) ==
    [file EXCEPT !.lines[1].created_at = EmptyCell]

\* the documents the admin sends: the export of the table as it is, damaged
\* copies of it, a file with the header and no lines, a file of another format
ImportFiles ==
    LET file == export_bookings(2)
    IN  {file, [fieldnames_ok |-> TRUE, lines |-> <<>>], NoFile}
        \cup (IF file.lines # <<>> THEN {CorruptLast(file), NoCreatedAt(file)} ELSE {})

NextImport ==
    \/ StoreCreate
    \/ StoreCancel
    \/ \E a \in Users : import_bookings_start(a)
    \/ \E a \in Users, file \in ImportFiles : import_bookings_file(a, file)
    \/ Tick

SpecImport == Init /\ [][NextImport]_vars

(***************************************************************************)
(* Specification SpecTimers: rows come from storage calls; the process     *)
(* restarts, the admin rebuilds the reminders and imports the export       *)
(***************************************************************************)
NextTimers ==
    \/ StoreCreate
    \/ StoreCancel
    \/ \E a \in Users : admin_reschedule_reminders(a)
    \/ \E j \in BagToSet(jobs) : reminder_job(j)
    \/ \E a \in Users : import_bookings_start(a)
    \/ \E a \in Users : import_bookings_file(a, export_bookings(2))
    \/ Restart
    \/ Tick

SpecTimers == Init /\ [][NextTimers]_vars

(***************************************************************************)
(* Specification SpecFire: user 1 books and records are canceled while the *)
(* process keeps running; time passes and the job queue runs the jobs that *)
(* are due                                                                 *)
(***************************************************************************)
NextFire ==
    \/ Booking(1)
    \/ \E a \in Users, args \in CancelArgs : cancel_booking_command(a, args)
    \/ \E j \in BagToSet(jobs) : reminder_job(j)
    \/ Tick

SpecFire ==
    /\ Init /\ [][NextFire]_vars
    /\ WF_vars(Tick)
    /\ WF_vars(\E j \in BagToSet(jobs) : reminder_job(j))

(***************************************************************************)
(* Specification SpecHours: user 1 books with start and end times around   *)
(* the opening hour and the end of the day                                 *)
(***************************************************************************)
HourTexts == {<<0, 0>>, <<6, 0>>, <<6, 5>>, <<6, 30>>, <<7, 0>>, <<23, 59>>, <<24, 0>>}

NextHours ==
    \/ book_start(1)
    \/ \E data \in RoomData : book_choose_room(1, data)
    \/ \E text \in DateTexts : book_choose_date(1, text)
    \/ \E text \in HourTexts : book_choose_start(1, text)
    \/ \E text \in HourTexts : book_choose_end(1, text)
    \/ \E text \in TopicTexts : book_topic(1, text)
    \/ \E text \in NameTexts : book_name(1, text)
    \/ \E text \in ContactTexts : book_contact(1, text)
    \/ \E data \in ConfirmData : book_confirm(1, data)
    \/ book_cancel_command(1)
    \/ Tick

SpecHours == Init /\ [][NextHours]_vars

(***************************************************************************)
(* Specification SpecFrame: every operation that reaches the table: user 1 *)
(* books, the admin blocks 10:00 to 11:00 of day 2, records are canceled,  *)
(* reminder jobs run, the admin rebuilds the reminders and imports the     *)
(* export of the table                                                     *)
(***************************************************************************)
\* the steps of the admin-block dialog of user a with the texts of one block
BlockingPlain(a) ==
    \/ admin_block_start(a)
    \/ admin_block_choose_room(a, "ROOM3")
    \/ admin_block_choose_date(a, "D2")
    \/ admin_block_choose_start(a, <<10, 0>>)
    \/ \E text \in {<<10, 0>>, <<11, 0>>} : admin_block_choose_end(a, text)
    \/ \E text \in ReasonTexts : admin_block_reason(a, text)

NextFrame ==
    \/ Booking(1)
    \/ BlockingPlain(2)
    \/ \E a \in Users, args \in CancelArgs : cancel_booking_command(a, args)
    \/ admin_reschedule_reminders(2)
    \/ \E j \in BagToSet(jobs) : reminder_job(j)
    \/ import_bookings_start(2)
    \/ import_bookings_file(2, export_bookings(2))
    \/ Tick

SpecFrame == Init /\ [][NextFrame]_vars

(***************************************************************************)
(* Specification SpecNotify: user 1 books and cancels, reminder            *)
(* jobs run and the admin rebuilds the reminders while the transport is    *)
(* at times unreliable                                                     *)
(***************************************************************************)
NextNotify ==
    \/ Booking(1)
    \/ \E args \in CancelArgs : cancel_booking_command(1, args)
    \/ admin_reschedule_reminders(2)
    \/ \E j \in BagToSet(jobs) : reminder_job(j)
    \/ Network
    \/ Tick

SpecNotify == Init /\ [][NextNotify]_vars

(***************************************************************************)
(* Specification SpecConfirm: both users book 10:30 to 11:30 of day 2 on   *)
(* floor 3 while the admin blocks 10:00 to 11:00 of that day, records are  *)
(* canceled and the admin imports the export of the table                  *)
(***************************************************************************)
\* the steps of the booking dialog of user a with the texts of one interval
BookingPlain(a) ==
    \/ book_start(a)
    \/ book_choose_room(a, "ROOM3")
    \/ book_choose_date(a, "D2")
    \/ book_choose_start(a, <<10, 30>>)
    \/ book_choose_end(a, <<11, 30>>)
    \/ book_topic(a, "-")
    \/ book_name(a, "Ann")
    \/ book_contact(a, "-")
    \/ \E data \in ConfirmData : book_confirm(a, data)

NextConfirm ==
    \/ \E a \in Users : BookingPlain(a)
    \/ BlockingPlain(2)
    \/ \E args \in {<<"int", n>> : n \in 1..MaxId} : cancel_booking_command(2, args)
    \/ import_bookings_start(2)
    \/ import_bookings_file(2, export_bookings(2))

SpecConfirm == Init /\ [][NextConfirm]_vars

(***************************************************************************)
(* Specification SpecStartup: rows come from storage calls; the process    *)
(* restarts and nobody asks for a rebuild of the reminders                 *)
(***************************************************************************)
NextStartup ==
    \/ StoreCreate
    \/ StoreCancel
    \/ \E j \in BagToSet(jobs) : reminder_job(j)
    \/ Restart
    \/ Tick

SpecStartup == Init /\ [][NextStartup]_vars

(***************************************************************************)
(* Specification SpecChat: the process is started with or without a shared *)
(* chat in its environment; user 1 books and cancels, the admin rebuilds   *)
(* the reminders, the transport is at times unreliable, time passes and    *)
(* the job queue runs the jobs that are due                                *)
(***************************************************************************)
\* load_admins_and_chat: GROUP_CHAT_ID stays None when the environment
\* does not give it
InitEnv ==
    /\ rows = <<>>
    /\ sqlite_sequence = 0
    /\ clock = DAY + 540
    /\ conv = [u \in Users |-> END]
    /\ ablock_conv = [u \in Users |-> END]
    /\ user_data = [u \in Users |-> [booking |-> NoDraft, ablock |-> NoDraft, awaiting_import_bookings |-> FALSE]]
    /\ jobs = EmptyBag
    /\ outbox = EmptyBag
    /\ ran = {}
    /\ made = [u \in Users |-> 0]
    /\ answer = [u \in Users |-> "none"]
    /\ GROUP_CHAT_ID \in {GroupChat, None}
    /\ send_fails = FALSE
    /\ log = {}

NextChat ==
    \/ BookingPlain(1)
    \/ \E args \in {<<"int", n>> : n \in 1..MaxId} : cancel_booking_command(1, args)
    \/ admin_reschedule_reminders(2)
    \/ \E j \in BagToSet(jobs) : reminder_job(j)
    \/ Network
    \/ Tick

SpecChat ==
    /\ InitEnv /\ [][NextChat]_vars
    /\ WF_vars(Tick)
    /\ WF_vars(\E j \in BagToSet(jobs) : reminder_job(j))

(***************************************************************************)
(* Properties                                                              *)
(***************************************************************************)
Active(r) == r.canceled = 0
Overlap(r1, r2) == ~(r1.end_ts <= r2.start_ts \/ r2.end_ts <= r1.start_ts)

\* C1: in every reachable state any two distinct non-canceled records
\* (bookings and blocks together) of the same room have non-overlapping
\* half-open intervals [start, end).
C1_NoOverlap ==
    \A r1 \in Table, r2 \in Table :
        (r1.id # r2.id /\ Active(r1) /\ Active(r2) /\ r1.room = r2.room)
            => ~Overlap(r1, r2)

(***************************************************************************)
(* Helpers of the properties                                               *)
(***************************************************************************)
TableOf(f) == {f[i] : i \in DOMAIN f}
ActiveSame(tbl, room, s_ts, e_ts) ==
    {r \in tbl : Active(r) /\ r.room = room /\ r.start_ts = s_ts /\ r.end_ts = e_ts}
\* the drafts of a and b are complete and name the same room and interval
SameSlot(a, b) ==
    LET da == user_data[a].booking
        db == user_data[b].booking
    IN  /\ da.present /\ db.present
        /\ da.end_dt # <<>> /\ db.end_dt # <<>>
        /\ da.room = db.room /\ da.start_dt = db.start_dt /\ da.end_dt = db.end_dt
IdArgs == 1..(MaxId + 1)
FireTime(r) == r.start_ts - DAY
JobsOf(n) == {j \in BagToSet(jobs) : j.booking_id = n}
MessagesOf(n) == {m \in BagToSet(outbox) : m.booking_id = n}
\* the record n is missing, canceled or a block
NotRemindable(n) ==
    \/ n \notin Ids
    \/ rows[n].canceled # 0
    \/ rows[n].is_block # 0

\* C2: when the dialogs of two users both wait for the confirmation of the
\* same room and interval and no record conflicts with it, the confirmation
\* of the first creates a record and makes the confirmation of the second
\* answer "time just taken"; a confirmation that finds a conflict ends the
\* dialog without changing the table, so exactly one active record has that
\* interval afterwards.
C2_FirstCommitsSecondAborts ==
    [][ /\ \A a \in Users, b \in Users :
            LET d == user_data[a].booking IN
            ( /\ a # b
              /\ conv[a] = BOOK_CONFIRM /\ conv[b] = BOOK_CONFIRM
              /\ SameSlot(a, b)
              /\ \A r \in Table : Active(r) /\ r.room = d.room
                     => (r.end_ts <= dt_to_ts(d.start_dt) \/ r.start_ts >= dt_to_ts(d.end_dt))
              /\ book_confirm(a, "OK") )
            => /\ answer'[a] = "booking_created"
               /\ made'[a] = 1
               /\ Cardinality(ActiveSame(TableOf(rows'), d.room, dt_to_ts(d.start_dt), dt_to_ts(d.end_dt))) = 1
               /\ conv'[b] = BOOK_CONFIRM
               /\ (confirm_reply(b, "OK"))' = "time_just_taken"
        /\ \A b \in Users :
            LET d == user_data[b].booking IN
            ( /\ conv[b] = BOOK_CONFIRM
              /\ d.present /\ d.end_dt # <<>>
              /\ ActiveSame(Table, d.room, dt_to_ts(d.start_dt), dt_to_ts(d.end_dt)) # {}
              /\ book_confirm(b, "OK") )
            => /\ rows' = rows
               /\ answer'[b] = "time_just_taken"
               /\ made'[b] = 0
               /\ conv'[b] = END
               /\ Cardinality(ActiveSame(TableOf(rows'), d.room, dt_to_ts(d.start_dt), dt_to_ts(d.end_dt))) = 1
      ]_vars

\* C2 witness: one user's dialog ended with a created record, the other's
\* with "time just taken" and no record, and one active record exists
C2_Witness ==
    \E a \in Users, b \in Users :
        /\ a # b
        /\ answer[a] = "booking_created" /\ made[a] = 1
        /\ answer[b] = "time_just_taken" /\ made[b] = 0
        /\ conv[a] = END /\ conv[b] = END
        /\ \E r \in Table : r.user_id = a /\ Active(r)
                            /\ ActiveSame(Table, r.room, r.start_ts, r.end_ts) = {r}

C4_ConflictsExact ==
    \A room \in StoreRooms, s \in StoreTimes, e \in StoreTimes :
        dt_to_ts(s) < dt_to_ts(e) =>
            LET got == check_conflicts(room, s, e, None) IN
            /\ got = {r \in Table : /\ r.canceled = 0
                                    /\ r.room = room
                                    /\ \E t \in dt_to_ts(s)..(dt_to_ts(e) - 1) :
                                           r.start_ts <= t /\ t < r.end_ts}
            /\ \A r \in Table :
                   (r.end_ts = dt_to_ts(s) \/ r.start_ts = dt_to_ts(e)
                    \/ r.room # room \/ r.canceled # 0) => r \notin got

\* C4 witness: two active records of one room touch, and the conflict check
\* for the interval of the later one returns it and not the earlier one
C4_Witness ==
    \E r1 \in Table, r2 \in Table :
        /\ Active(r1) /\ Active(r2) /\ r1.room = r2.room
        /\ r1.end_ts = r2.start_ts
        /\ check_conflicts(r2.room, ts_to_dt(r2.start_ts), ts_to_dt(r2.end_ts), None) = {r2}
        /\ check_conflicts(r1.room, ts_to_dt(r1.start_ts), ts_to_dt(r2.end_ts), None) = {r1, r2}

\* C5: a canceled record stays canceled, and it is returned neither by the
\* conflict check nor by the owner's future bookings, the day and range
\* queries or the future-bookings query, while get_booking and
\* get_all_bookings still return it.
C5_CanceledExcluded ==
    /\ [](\A r \in Table : r.canceled # 0 =>
            /\ \A x \in Table :
                   r \notin check_conflicts(r.room, ts_to_dt(x.start_ts), ts_to_dt(x.end_ts), None)
            /\ \A u \in Users \cup {None} : r \notin get_user_future_bookings(u)
            /\ \A d \in 0..(MaxDay + 1) :
                   /\ r \notin get_bookings_for_day(r.room, d)
                   /\ r \notin get_bookings_for_day(NoneText, d)
            /\ r \notin get_bookings_for_range(0, (MaxDay + 2) * DAY)
            /\ r \notin get_bookings_for_range(r.start_ts, r.end_ts)
            /\ r \notin get_future_bookings
            /\ get_booking(r.id) = {r}
            /\ r \in get_all_bookings)
    /\ [][\A i \in Ids : rows[i].canceled # 0 =>
             (i \in DOMAIN rows' /\ rows'[i].canceled # 0)]_vars

\* C5 witness: after a record was canceled a new record with the same room
\* and interval was created
C5_Witness ==
    \E r1 \in Table, r2 \in Table :
        /\ r1.canceled # 0 /\ Active(r2)
        /\ r1.id < r2.id
        /\ r1.room = r2.room /\ r1.start_ts = r2.start_ts /\ r1.end_ts = r2.end_ts
        /\ r2.created_at >= r1.canceled_at

C7_CancelGuards ==
    /\ [](\A a \in Users, n \in IdArgs :
            cancel_reply(a, <<"int", n>>) =
                IF n \notin Ids \/ rows[n].canceled # 0 THEN "booking_not_found"
                ELSE IF rows[n].user_id # a /\ a \notin ADMIN_IDS THEN "not_your_booking"
                ELSE IF clock >= rows[n].start_ts THEN "already_started"
                ELSE "booking_canceled_ok")
    /\ [][\A a \in Users, args \in CancelArgs :
            (cancel_booking_command(a, args) /\ rows' # rows) =>
                /\ args[1] = "int" /\ args[2] \in Ids
                /\ rows[args[2]].canceled = 0
                /\ (rows[args[2]].user_id = a \/ a \in ADMIN_IDS)
                /\ clock < rows[args[2]].start_ts
      ]_vars

\* C7 witness: a record of the admin has started, the other user is answered
\* "not yours" and the admin "already started"; a record canceled earlier is
\* answered "not found"
C7_Witness ==
    \E r1 \in Table, r2 \in Table :
        /\ Active(r1) /\ r1.user_id = 2 /\ clock >= r1.start_ts
        /\ cancel_reply(1, <<"int", r1.id>>) = "not_your_booking"
        /\ cancel_reply(2, <<"int", r1.id>>) = "already_started"
        /\ r2.canceled = 1 /\ r2.canceled_at < r2.start_ts
        /\ cancel_reply(2, <<"int", r2.id>>) = "booking_not_found"

\* C8: every active record that is not a block and whose reminder time
\* start - 1 day is after the current time has exactly one job in the queue,
\* and that job runs at start - 1 day.
C8_OneReminderJob ==
    \A r \in Table :
        (Active(r) /\ r.is_block = 0 /\ FireTime(r) > clock) =>
            /\ JobsOf(r.id) = {Job(r.id, FireTime(r))}
            /\ CopiesIn(Job(r.id, FireTime(r)), jobs) = 1

\* C8 witness: an active booking with its reminder time ahead and its job in
\* the queue, next to a canceled record and with no dialog open (as after a
\* start of the process)
C8_Witness ==
    \E r \in Table, c \in Table :
        /\ Active(r) /\ r.is_block = 0 /\ FireTime(r) > clock
        /\ CopiesIn(Job(r.id, FireTime(r)), jobs) = 1
        /\ c.canceled = 1 /\ c.id < r.id
        /\ \A u \in Users : conv[u] = END /\ ablock_conv[u] = END

\* C9: schedule_reminder_for_booking leaves the job queue as it is when the
\* record is missing, canceled or a block, or when start - 1 day is not
\* after the current time; no job of the queue refers to a block.
C9_NoArmWhenNotDue ==
    /\ \A n \in IdArgs :
           (NotRemindable(n) \/ FireTime(rows[n]) <= clock)
               => schedule_reminder_for_booking(jobs, Table, n) = jobs
    /\ \A j \in BagToSet(jobs) :
           j.booking_id \in Ids /\ rows[j.booking_id].is_block = 0

\* C9 witness: an active booking created when its reminder time had passed
\* has no job and never had one run, and a block with its start - 1 day
\* ahead has no job either
C9_Witness ==
    /\ \E r \in Table :
           /\ Active(r) /\ r.is_block = 0
           /\ r.created_at >= FireTime(r) /\ clock < r.start_ts
           /\ JobsOf(r.id) = {} /\ r.id \notin ran
    /\ \E k \in Table :
           /\ Active(k) /\ k.is_block = 1 /\ JobsOf(k.id) = {}

\* C10: a reminder job that finds its record missing, canceled, a block or
\* already started sends nothing.
C10_NoReminderWhenStale ==
    [][\A j \in BagToSet(jobs) :
          ( /\ reminder_job(j)
            /\ (NotRemindable(j.booking_id) \/ clock >= rows[j.booking_id].start_ts) )
          => outbox' = outbox
      ]_vars

\* C10 witness: the job of a record canceled before its start has run and
\* no message about the record was sent
C10_Witness ==
    \E r \in Table :
        /\ r.canceled = 1 /\ r.is_block = 0
        /\ r.canceled_at < r.start_ts
        /\ r.id \in ran
        /\ JobsOf(r.id) = {}
        /\ MessagesOf(r.id) = {}

\* the job queue that holds one job for every active record that is not a
\* block and whose start - 1 day is after the current time, and nothing else
DueJobs ==
    SetToBag({Job(r.id, FireTime(r)) :
                 r \in {x \in Table : Active(x) /\ x.is_block = 0 /\ FireTime(x) > clock}})

\* C11: a rebuild of the reminders that follows a rebuild, with the table
\* and the clock as they were, leaves the job queue as the first rebuild
\* made it, and no job is in the queue twice.
C11_RebuildIdempotent ==
    [][\A a \in Users :
          (is_admin(a) /\ admin_reschedule_reminders(a)) =>
              /\ (reschedule_all_booking_reminders[1])' = jobs'
              /\ \A j \in BagToSet(jobs') : CopiesIn(j, jobs') = 1
              /\ \A j1 \in BagToSet(jobs'), j2 \in BagToSet(jobs') :
                     j1.booking_id = j2.booking_id => j1 = j2
      ]_vars

\* C11 witness: two records have their jobs in the queue, a third record was
\* replaced by an import and has no job, and a rebuild changes nothing
C11_Witness ==
    /\ \E r1 \in Table, r2 \in Table :
           /\ r1.id # r2.id
           /\ BagIn(Job(r1.id, FireTime(r1)), jobs)
           /\ BagIn(Job(r2.id, FireTime(r2)), jobs)
    /\ sqlite_sequence > Cardinality(Ids)
    /\ reschedule_all_booking_reminders[1] = jobs

\* C12: after a rebuild of the reminders, whatever the queue held before,
\* the queue holds exactly one job for every active record that is not a
\* block and whose start - 1 day is after the current time, and no other job.
C12_RebuildExact ==
    /\ [](reschedule_all_booking_reminders[1] = DueJobs)
    /\ [][\A a \in Users :
            (is_admin(a) /\ admin_reschedule_reminders(a)) => jobs' = DueJobs']_vars

\* C12 witness: the queue holds a job of a record that an import removed
\* and a job of a canceled record, two active records are due, and the
\* rebuild would change the queue
C12_Witness ==
    /\ \E j \in BagToSet(jobs) : j.booking_id \notin Ids
    /\ \E r \in Table : r.canceled = 1
    /\ \E r \in Table : Active(r) /\ r.is_block = 0 /\ FireTime(r) > clock
    /\ jobs # DueJobs
    /\ reschedule_all_booking_reminders[1] = DueJobs

\* C13: the number that the rebuild of the reminders returns is the number
\* of jobs in the queue after it.
C13_CountIsArmed ==
    reschedule_all_booking_reminders[2] = BagCardinality(reschedule_all_booking_reminders[1])

ImportRuns(a, file) ==
    /\ import_bookings_file(a, file)
    /\ is_admin(a) /\ user_data[a].awaiting_import_bookings /\ file.fieldnames_ok
LinesOf(file) == {file.lines[k] : k \in DOMAIN file.lines}

\* C15: importing the file that the export of the table gives leaves the
\* table as it was: the same rows with the same ids, field values and
\* cancellation state.
C15_RoundTrip ==
    [][\A a \in Users : ImportRuns(a, export_bookings(a)) => rows' = rows]_vars

\* C16, first half: an import in which a line raises after the table was
\* cleared leaves the table as it was before
C16_FailureLeavesStore ==
    [][\A a \in Users, file \in ImportFiles :
          (ImportRuns(a, file) /\ \E k \in DOMAIN file.lines : line_raises(file.lines[k]))
              => (rows' = rows /\ sqlite_sequence' = sqlite_sequence)]_vars

\* C16, second half: an import in which no line raises leaves exactly the
\* rows of the file in the table
C16_SuccessHoldsSupplied ==
    [][\A a \in Users, file \in ImportFiles :
          (ImportRuns(a, file) /\ \A k \in DOMAIN file.lines : ~line_raises(file.lines[k]))
              => ( /\ Cardinality(DOMAIN rows') = Len(file.lines)
                   /\ {csv_line(r) : r \in TableOf(rows')} = LinesOf(file) )]_vars

\* C16: the import is all-or-nothing: when a line fails after the table was
\* cleared the table ends as it was before, and when none fails the table
\* holds exactly the rows of the file.
C16_AllOrNothing ==
    C16_FailureLeavesStore /\ C16_SuccessHoldsSupplied

\* C17: every id of the table is at most the AUTOINCREMENT counter, the
\* counter never decreases, every row that a step adds gets an id above the
\* counter (so above every id given before, also after an import cleared the
\* table), the rows of one import are numbered in the order of the file, and
\* a row that stays keeps its id and its created values.
C17_IdsNeverReused ==
    /\ [](\A i \in Ids : rows[i].id = i /\ i <= sqlite_sequence)
    /\ [][ /\ sqlite_sequence' >= sqlite_sequence
           /\ \A i \in DOMAIN rows' :
                  \/ i > sqlite_sequence
                  \/ /\ i \in Ids
                     /\ rows'[i].created_at = rows[i].created_at
                     /\ rows'[i].room = rows[i].room
                     /\ rows'[i].start_ts = rows[i].start_ts
                     /\ rows'[i].end_ts = rows[i].end_ts
                     /\ rows'[i].user_id = rows[i].user_id
           /\ \A a \in Users, file \in ImportFiles :
                  (rows' # rows /\ user_data' # user_data /\ ImportRuns(a, file)) =>
                      \A k \in DOMAIN file.lines :
                          /\ (sqlite_sequence + k) \in DOMAIN rows'
                          /\ rows'[sqlite_sequence + k].start_ts = to_int(file.lines[k].start_ts, FALSE)
                          /\ rows'[sqlite_sequence + k].room = file.lines[k].room
         ]_vars

\* C17 witness: an import replaced the rows and a row was created after it:
\* the table holds ids above the number of rows ever held at once, and the
\* newest row was made by create_booking after the imported one
C17_Witness ==
    \E r1 \in Table, r2 \in Table :
        /\ r1.id > MaxId /\ r2.id > r1.id
        /\ r2.id = sqlite_sequence
        /\ r2.created_at > r1.created_at
        /\ r2.canceled_at = None /\ r2.user_full_name = NoneText
        /\ r1.user_full_name = ""

\* an active record of the room of a's draft overlaps [s_ts, e_ts)
DraftConflict(a, s_ts, e_ts) ==
    \E r \in Table :
        /\ Active(r) /\ r.room = user_data[a].booking.room
        /\ r.start_ts < e_ts /\ s_ts < r.end_ts
\* text is an end time the booking rules accept after the start of a's
\* draft: a time of day after the opening hour, at least the minimal
\* duration after the start
AcceptableEnd(a, text) ==
    LET b == user_data[a].booking IN
    /\ text[1] \in (WORK_START_HOUR + 1)..23 /\ text[2] \in 0..59
    /\ b.start_dt # <<>>
    /\ (b.date * DAY + text[1] * 60 + text[2]) - dt_to_ts(b.start_dt) >= MIN_DURATION_MINUTES

\* C18: a step changes the state of the booking dialog only to the next
\* state in the order room, date, start, end, topic, name, contact, confirm,
\* to the end of the dialog, from outside the dialog to the room state, or
\* from the end-time state back to the start-time state; an acceptable end
\* time whose interval conflicts with an active record goes back to the
\* start-time state, creates no record and leaves the end of the draft unset.
C18_ForwardOnly ==
    /\ [][\A a \in Users :
            conv'[a] # conv[a] =>
                \/ conv[a] = END /\ conv'[a] = BOOK_ROOM
                \/ conv[a] \in BOOK_ROOM..BOOK_CONTACT /\ conv'[a] = conv[a] + 1
                \/ conv[a] # END /\ conv'[a] = END
                \/ /\ conv[a] = BOOK_END /\ conv'[a] = BOOK_START
                   /\ \E r \in Table : Active(r) /\ r.room = user_data[a].booking.room
                                       /\ r.end_ts > dt_to_ts(user_data[a].booking.start_dt)
                   /\ rows' = rows
                   /\ user_data'[a].booking.end_dt = <<>>
        ]_vars
    /\ [](\A a \in Users, text \in EndTexts :
            ( /\ conv[a] = BOOK_END
              /\ AcceptableEnd(a, text)
              /\ DraftConflict(a, dt_to_ts(user_data[a].booking.start_dt),
                               user_data[a].booking.date * DAY + text[1] * 60 + text[2]) )
            => ENABLED ( /\ book_choose_end(a, text)
                         /\ conv'[a] = BOOK_START
                         /\ rows' = rows /\ jobs' = jobs
                         /\ user_data'[a].booking.end_dt = <<>> ))

\* C18 witness: the dialog is back in the start-time state with a start
\* already in the draft, no end, and an active record in the way
C18_Witness ==
    \E a \in Users :
        /\ conv[a] = BOOK_START
        /\ user_data[a].booking.start_dt # <<>>
        /\ user_data[a].booking.end_dt = <<>>
        /\ DraftConflict(a, dt_to_ts(user_data[a].booking.start_dt),
                         dt_to_ts(user_data[a].booking.start_dt) + 60)

\* C19: /cancel can be given in every state of the booking dialog; it and
\* the cancel buttons of the room and confirm states end the dialog, remove
\* the draft and leave the table and the job queue as they are.
C19_CancelAnywhere ==
    /\ [](\A a \in Users : conv[a] \in BOOK_ROOM..BOOK_CONFIRM => ENABLED book_cancel_command(a))
    /\ [][\A a \in Users :
            ( \/ book_cancel_command(a)
              \/ book_choose_room(a, "CANCEL")
              \/ book_confirm(a, "CANCEL") )
            => /\ conv'[a] = END
               /\ ~user_data'[a].booking.present
               /\ answer'[a] \in {"booking_dialog_aborted", "booking_canceled"}
               /\ rows' = rows /\ sqlite_sequence' = sqlite_sequence
               /\ jobs' = jobs /\ outbox' = outbox
      ]_vars

\* C19 witness: a dialog was ended by /cancel while a record and its job exist
C19_Witness ==
    \E a \in Users :
        /\ answer[a] = "booking_dialog_aborted"
        /\ conv[a] = END /\ ~user_data[a].booking.present
        /\ made[a] = 0
        /\ \E r \in Table : Active(r) /\ JobsOf(r.id) # {}

\* C20: a confirmation given while an active record of the draft's room
\* overlaps the draft's interval ends the dialog with "time just taken":
\* no row is inserted, no job is armed, the table is unchanged and the draft
\* is removed.
C20_ConfirmConflictAborts ==
    [][\A a \in Users :
          LET b == user_data[a].booking IN
          ( /\ conv[a] = BOOK_CONFIRM
            /\ b.present /\ b.start_dt # <<>> /\ b.end_dt # <<>>
            /\ DraftConflict(a, dt_to_ts(b.start_dt), dt_to_ts(b.end_dt))
            /\ book_confirm(a, "OK") )
          => /\ answer'[a] = "time_just_taken"
             /\ conv'[a] = END
             /\ rows' = rows /\ sqlite_sequence' = sqlite_sequence
             /\ jobs' = jobs
             /\ made'[a] = 0
             /\ ~user_data'[a].booking.present
      ]_vars

\* C20 witness: the dialog of user 1 ended with "time just taken" and without
\* a record of its own, the draft is gone, and a block of the admin is active
C20_Witness ==
    /\ answer[1] = "time_just_taken" /\ made[1] = 0
    /\ conv[1] = END /\ ~user_data[1].booking.present
    /\ \E r \in Table : Active(r) /\ r.is_block = 1
    /\ \A r \in Table : r.user_id # 1

\* C21: every record that the booking dialog or the admin-block dialog
\* created has end > start, and every record that is not a block lasts at
\* least MIN_DURATION_MINUTES; so does the draft of a dialog that is past the
\* end-time state, and the end time 10:05 given after the start 10:00 leaves
\* the dialog in the end-time state with the draft as it was.
C21_DurationBounds ==
    /\ \A r \in Table :
           /\ r.end_ts > r.start_ts
           /\ r.is_block = 0 => r.end_ts - r.start_ts >= MIN_DURATION_MINUTES
    /\ \A a \in Users :
           conv[a] \in BOOK_TOPIC..BOOK_CONFIRM =>
               dt_to_ts(user_data[a].booking.end_dt) - dt_to_ts(user_data[a].booking.start_dt)
                   >= MIN_DURATION_MINUTES
    /\ \A a \in Users :
           ( /\ conv[a] = BOOK_END
             /\ user_data[a].booking.start_dt = <<user_data[a].booking.date, 10, 0>> )
           => ENABLED ( /\ book_choose_end(a, <<10, 5>>)
                        /\ conv'[a] = BOOK_END
                        /\ user_data' = user_data /\ rows' = rows )

\* C21 witness: a booking of an hour and a block of five minutes were
\* created, and a dialog waits for the end time after the start 10:00
C21_Witness ==
    /\ \E r \in Table : r.is_block = 0 /\ r.end_ts - r.start_ts = 60
    /\ \E k \in Table : k.is_block = 1 /\ k.end_ts - k.start_ts = 5
    /\ \E a \in Users :
           /\ conv[a] = BOOK_END
           /\ user_data[a].booking.start_dt = <<user_data[a].booking.date, 10, 0>>

\* the texts "h:m" tried at the start-time and end-time states
TimeProbe == {<<h, m>> : h \in {0, 5, 6, 7, 10, 23, 24}, m \in {0, 5, 59, 60}}
ValidTime(text) == text[1] \in 0..23 /\ text[2] \in 0..59

\* C22: in the start-time state a text is accepted exactly when it is a
\* valid hour:minute with WORK_START_HOUR <= hour < WORK_END_HOUR: then the
\* draft gets that start and the dialog goes to the end-time state; every
\* other text leaves the dialog in the start-time state and the draft as it
\* was.  Every record that is not a block starts within the working hours.
C22_StartInWindow ==
    /\ \A a \in Users, text \in TimeProbe :
           conv[a] = BOOK_START =>
               IF ValidTime(text) /\ text[1] >= WORK_START_HOUR /\ text[1] < WORK_END_HOUR
               THEN /\ ENABLED ( /\ book_choose_start(a, text)
                                 /\ conv'[a] = BOOK_END
                                 /\ user_data'[a].booking =
                                        [user_data[a].booking EXCEPT
                                            !.start_dt = <<user_data[a].booking.date, text[1], text[2]>>] )
                    /\ ~ENABLED (book_choose_start(a, text) /\ conv'[a] # BOOK_END)
               ELSE /\ ENABLED ( /\ book_choose_start(a, text)
                                 /\ conv'[a] = BOOK_START
                                 /\ user_data' = user_data )
                    /\ ~ENABLED ( /\ book_choose_start(a, text)
                                  /\ (conv'[a] # BOOK_START \/ user_data' # user_data) )
    /\ \A r \in Table :
           r.is_block = 0 =>
               /\ ts_to_dt(r.start_ts)[2] >= WORK_START_HOUR
               /\ ts_to_dt(r.start_ts)[2] < WORK_END_HOUR

\* C22 witness: a booking that starts at 10:00 was created, a block starts
\* before the working hours, and a dialog is in the start-time state
C22_Witness ==
    /\ \E r \in Table : r.is_block = 0 /\ ts_to_dt(r.start_ts)[2] = 10
    /\ \E k \in Table : k.is_block = 1 /\ ts_to_dt(k.start_ts)[2] < WORK_START_HOUR
    /\ \E a \in Users : conv[a] = BOOK_START /\ user_data[a].booking.date # None

\* the end of the interval that text gives to a's draft, as a timestamp
EndOf(a, text) == user_data[a].booking.date * DAY + text[1] * 60 + text[2]

\* C23: in the end-time state every valid hour:minute that is after the
\* start of the draft, at least MIN_DURATION_MINUTES after it and not after
\* WORK_END_HOUR:00 is accepted when no active record of the room overlaps
\* the interval (the draft gets the end and the dialog goes to the topic
\* state), and no other text is accepted.
C23_EndAccepted ==
    \A a \in Users, text \in HourTexts :
        conv[a] = BOOK_END =>
            LET s_ts == dt_to_ts(user_data[a].booking.start_dt) IN
            IF /\ ValidTime(text)
               /\ EndOf(a, text) > s_ts
               /\ EndOf(a, text) - s_ts >= MIN_DURATION_MINUTES
               /\ EndOf(a, text) <= user_data[a].booking.date * DAY + WORK_END_HOUR * 60
               /\ ~DraftConflict(a, s_ts, EndOf(a, text))
            THEN ENABLED ( /\ book_choose_end(a, text)
                           /\ conv'[a] = BOOK_TOPIC
                           /\ user_data'[a].booking.end_dt = <<user_data[a].booking.date, text[1], text[2]>> )
            ELSE ~ENABLED (book_choose_end(a, text) /\ conv'[a] = BOOK_TOPIC)

\* the texts tried at the date state
DateProbe == DOMAIN Calendar \cup {"today", "tomorrow", "junk"}

\* C24: in the date state a text is accepted exactly when it parses to a
\* date d with today <= d <= today + PLANNING_DAYS: then the draft gets that
\* date and the dialog goes to the start-time state; a text that does not
\* parse, a past date and a date beyond the horizon leave the dialog in the
\* date state and the draft as it was.
C24_DateInHorizon ==
    \A a \in Users, text \in DateProbe :
        conv[a] = BOOK_DATE =>
            LET d == parse_date(text) IN
            IF d # None /\ d >= clock \div DAY /\ d <= (clock \div DAY) + PLANNING_DAYS
            THEN /\ ENABLED ( /\ book_choose_date(a, text)
                              /\ conv'[a] = BOOK_START
                              /\ user_data'[a].booking = [user_data[a].booking EXCEPT !.date = d] )
                 /\ ~ENABLED (book_choose_date(a, text) /\ conv'[a] # BOOK_START)
            ELSE /\ ENABLED ( /\ book_choose_date(a, text)
                              /\ conv'[a] = BOOK_DATE
                              /\ user_data' = user_data )
                 /\ ~ENABLED ( /\ book_choose_date(a, text)
                               /\ (conv'[a] # BOOK_DATE \/ user_data' # user_data) )

\* C24 witness: on day 2 a dialog is in the date state (day 1 is past, day
\* 122 is the last day of the horizon) and a record for day 2 exists
C24_Witness ==
    /\ clock \div DAY = 2
    /\ \E a \in Users :
           /\ conv[a] = BOOK_DATE
           /\ parse_date("D1") < today
           /\ parse_date("D122") = today + PLANNING_DAYS
           /\ parse_date("D123") > today + PLANNING_DAYS
    /\ \E r \in Table : r.start_ts \div DAY = 2

\* an active record of the room of a's block draft overlaps [s_ts, e_ts)
BlockConflict(a, s_ts, e_ts) ==
    \E r \in Table :
        /\ Active(r) /\ r.room = user_data[a].ablock.room
        /\ r.start_ts < e_ts /\ s_ts < r.end_ts
\* the end of the interval that text gives to a's block draft
BlockEndOf(a, text) == user_data[a].ablock.date * DAY + text[1] * 60 + text[2]

\* C25: the admin-block dialog goes from the end-time state to the reason
\* state only with an end after the start and with no active record
\* (booking or block) of the room overlapping the interval at that moment,
\* and the step creates nothing; an end time whose interval conflicts leaves
\* the dialog in the end-time state, the table as it is and the end of the
\* draft unset.
C25_BlockEndChecked ==
    /\ [][\A a \in Users :
            (ablock_conv[a] = ADMIN_BLOCK_END /\ ablock_conv'[a] = ADMIN_BLOCK_REASON) =>
                LET ab == user_data'[a].ablock IN
                /\ dt_to_ts(ab.end_dt) > dt_to_ts(ab.start_dt)
                /\ ab.start_dt = user_data[a].ablock.start_dt
                /\ ab.room = user_data[a].ablock.room
                /\ ~BlockConflict(a, dt_to_ts(ab.start_dt), dt_to_ts(ab.end_dt))
                /\ rows' = rows /\ jobs' = jobs
        ]_vars
    /\ [](\A a \in Users :
            ablock_conv[a] = ADMIN_BLOCK_END =>
                /\ user_data[a].ablock.end_dt = <<>>
                /\ \A text \in TimeProbe :
                       ( /\ ~TextGoesToBooking(a)
                         /\ ValidTime(text)
                         /\ BlockEndOf(a, text) > dt_to_ts(user_data[a].ablock.start_dt)
                         /\ BlockConflict(a, dt_to_ts(user_data[a].ablock.start_dt), BlockEndOf(a, text)) )
                       => /\ ENABLED ( /\ admin_block_choose_end(a, text)
                                       /\ ablock_conv'[a] = ADMIN_BLOCK_END
                                       /\ rows' = rows
                                       /\ user_data' = user_data )
                          /\ ~ENABLED ( /\ admin_block_choose_end(a, text)
                                        /\ ablock_conv'[a] # ADMIN_BLOCK_END ))

\* C25 witness: the admin is asked for the end of a block that starts at
\* 10:00, and an active booking of that room and day begins at 10:00
C25_Witness ==
    \E a \in Users :
        /\ ablock_conv[a] = ADMIN_BLOCK_END /\ ~TextGoesToBooking(a)
        /\ user_data[a].ablock.end_dt = <<>>
        /\ \E r \in Table :
               /\ Active(r) /\ r.is_block = 0
               /\ r.room = user_data[a].ablock.room
               /\ r.start_ts = dt_to_ts(user_data[a].ablock.start_dt)
        /\ BlockConflict(a, dt_to_ts(user_data[a].ablock.start_dt), BlockEndOf(a, <<10, 5>>))

\* the block record that the reason step makes of a's draft and text
BlockRow(a, text) ==
    LET ab == user_data[a].ablock IN
    [id |-> sqlite_sequence + 1, room |-> ab.room,
     start_ts |-> dt_to_ts(ab.start_dt), end_ts |-> dt_to_ts(ab.end_dt),
     user_id |-> None, user_full_name |-> NoneText, user_contact |-> NoneText,
     topic |-> NoneText, is_block |-> 1,
     block_reason |-> IF text = " " THEN "block" ELSE text,
     canceled |-> 0, canceled_at |-> None, created_at |-> clock]

\* C26: in the reason state of the admin-block dialog every text creates
\* exactly one record: a block without owner, with the text (or the default
\* reason when the text is blank) as reason and with the room and interval
\* of the draft; the step checks no conflicts, so it does the same when an
\* active record overlaps the interval, it arms no reminder job and it ends
\* the dialog.
C26_ReasonCommits ==
    \A a \in Users, text \in {" ", "repair"} :
        ( /\ ablock_conv[a] = ADMIN_BLOCK_REASON
          /\ ~TextGoesToBooking(a)
          /\ sqlite_sequence < MaxId )
        => /\ ENABLED ( /\ admin_block_reason(a, text)
                        /\ rows' = rows @@ ((sqlite_sequence + 1) :> BlockRow(a, text))
                        /\ jobs' = jobs
                        /\ ablock_conv'[a] = END )
           /\ ~ENABLED ( /\ admin_block_reason(a, text)
                         /\ \/ rows' # rows @@ ((sqlite_sequence + 1) :> BlockRow(a, text))
                            \/ jobs' # jobs )

\* C26 witness: a block was created over an active booking of the same room
\* that was committed before it (the end-time step of the block would have
\* refused the interval had the booking been there), and the block has no job
C26_Witness ==
    \E k \in Table, r \in Table :
        /\ k.is_block = 1 /\ k.user_id = None /\ k.block_reason = "block"
        /\ Active(k) /\ Active(r) /\ r.is_block = 0
        /\ r.id < k.id
        /\ r.room = k.room /\ Overlap(r, k)
        /\ JobsOf(k.id) = {}

\* C27: a step leaves every record of the table as it is, except that the
\* cancel command sets canceled and canceled_at of the record it names (all
\* other fields keep their values) and that an import removes the records
\* (all of them at once); the steps of the dialogs, the reminder jobs, the
\* rebuild of the reminders and the clock change and remove no record.
C27_OnlyCancelAndReplace ==
    [][\A i \in Ids :
          IF i \in DOMAIN rows'
          THEN \/ rows'[i] = rows[i]
               \/ /\ rows'[i] = [rows[i] EXCEPT !.canceled = 1, !.canceled_at = clock]
                  /\ \E a \in Users : cancel_booking_command(a, <<"int", i>>)
                  /\ \A k \in Ids \ {i} : k \in DOMAIN rows' /\ rows'[k] = rows[k]
          ELSE /\ ImportRuns(2, export_bookings(2))
               /\ DOMAIN rows' \cap Ids = {}
      ]_vars

\* C27 witness: record 1 was canceled, an import replaced the table (the
\* canceled record came back under a new id with its cancellation time) and
\* the reminder job of the old record has run
C27_Witness ==
    /\ 1 \notin Ids /\ 1 \in ran
    /\ \E r \in Table :
           /\ r.id > 1 /\ r.canceled = 1 /\ r.canceled_at # None
           /\ r.is_block = 0

\* C28: when the booking dialog of a user is not running (it has not begun,
\* or it ended with a created record, on an unknown room, at the confirm
\* step or by /cancel) the user has no booking draft, and when the
\* admin-block dialog of a user is not running the user has no block draft.
C28_DraftGoneAtEnd ==
    \A a \in Users :
        /\ conv[a] = END => ~user_data[a].booking.present
        /\ ablock_conv[a] = END => ~user_data[a].ablock.present

\* C29: a reminder job that runs and a rebuild of the reminders leave the
\* table as it is, and the arming inside the confirm step leaves every
\* record that was there and the inserted record as create_booking made
\* them.  A step in which a call of the Bot API raises removes no record and
\* changes none, except that the cancel command has canceled the record it
\* names: after a failure at the confirm step the inserted record is in the
\* table and active, after a failure at the cancel command the record is
\* canceled, and after a failure in a reminder job the table is as before.
C29_DispatchFailureKeepsStore ==
    [][ /\ (\E j \in BagToSet(jobs) : reminder_job(j))
            => (rows' = rows /\ sqlite_sequence' = sqlite_sequence)
        /\ (\E a \in Users : jobs' # jobs /\ admin_reschedule_reminders(a))
            => (rows' = rows /\ sqlite_sequence' = sqlite_sequence)
        /\ \A a \in Users :
               (jobs' # jobs /\ book_confirm(a, "OK")) =>
                   LET b == user_data[a].booking IN
                   rows' = create_booking(b.room, b.start_dt, b.end_dt, a, b.user_full_name, b.user_contact, b.topic, FALSE, NoneText)[1]
        /\ \A rec \in log' \ log :
               /\ \A i \in Ids :
                      /\ i \in DOMAIN rows'
                      /\ \/ rows'[i] = rows[i]
                         \/ /\ rec.at = "cancel" /\ rec.booking_id = i
                            /\ rows[i].canceled = 0
                            /\ rows'[i] = [rows[i] EXCEPT !.canceled = 1, !.canceled_at = clock]
               /\ rec.at = "commit" =>
                      /\ rec.booking_id \in DOMAIN rows' \ Ids
                      /\ rows'[rec.booking_id].canceled = 0
                      /\ rows'[rec.booking_id].is_block = 0
               /\ rec.at = "cancel" =>
                      /\ rec.booking_id \in Ids
                      /\ rows'[rec.booking_id].canceled = 1
               /\ rec.at \in {"fire", "confirm", "cancel_refused"} => rows' = rows
      ]_vars

\* C29 witness: the answer to the owner raised when record n was committed
\* and a reminder of n raised when its job ran, and n is in the table and
\* active; the answer raised when record m was canceled, and m is canceled
C29_Witness ==
    \E n \in Ids, m \in Ids :
        /\ [at |-> "commit", chat_id |-> rows[n].user_id, booking_id |-> n] \in log
        /\ \E rec \in log : rec.at = "fire" /\ rec.booking_id = n
        /\ n \in ran
        /\ rows[n].canceled = 0
        /\ \E rec \in log : rec.at = "cancel" /\ rec.booking_id = m
        /\ rows[m].canceled = 1

\* C30: the import is one step for every other handler and job: the table
\* that a step of an import leaves is either the table as it was before (the
\* transaction was rolled back) or the table that holds every line of the
\* file and nothing else; no state lies between the clearing and the end of
\* the repopulation, so a creation or a cancellation runs on one of the two.
C30_ReplaceIndivisible ==
    [][\A a \in Users, file \in ImportFiles :
          (rows' # rows /\ user_data' # user_data /\ ImportRuns(a, file)) =>
              /\ \A k \in DOMAIN file.lines : ~line_raises(file.lines[k])
              /\ DOMAIN rows' = (sqlite_sequence + 1)..(sqlite_sequence + Len(file.lines))
              /\ \A k \in DOMAIN file.lines :
                     rows'[sqlite_sequence + k] = import_row(file.lines[k], sqlite_sequence + k)
              /\ sqlite_sequence' = sqlite_sequence + Len(file.lines)
      ]_vars

\* C30 witness: an import replaced a table of two records by two records
\* with new ids, one of them a canceled record
C30_Witness ==
    /\ Cardinality(Ids) = MaxId
    /\ \A i \in Ids : i > MaxId /\ rows[i].user_full_name = ""
    /\ \E i \in Ids : rows[i].canceled = 1 /\ rows[i].canceled_at > rows[i].created_at

\* C31: the second conflict check and the insert of book_confirm are one
\* step: a confirmation that changes the table adds exactly one row, an
\* ordinary booking of the confirming user, leaves every other row as it
\* was, and the new row overlaps no record that is active in its room in
\* the table the step started from, whatever the other user, the admin's
\* block dialog or an import did before.
C31_CheckAndInsertAtomic ==
    [][\A a \in Users, data \in ConfirmData :
          (book_confirm(a, data) /\ rows' # rows) =>
              LET new == DOMAIN rows' \ Ids IN
              /\ Cardinality(new) = 1
              /\ \A i \in Ids : rows'[i] = rows[i]
              /\ \A n \in new :
                     /\ rows'[n].is_block = 0 /\ rows'[n].user_id = a
                     /\ rows'[n].canceled = 0
                     /\ \A r \in Table :
                            (Active(r) /\ r.room = rows'[n].room) => ~Overlap(r, rows'[n])
      ]_vars

\* C31 witness: user 1 confirmed 10:30 to 11:30 after the block 10:00 to
\* 11:00 of the same room was canceled, and the confirmation of user 2 for
\* the same interval, made afterwards, found the time taken
C31_Witness ==
    \E k \in Table, r \in Table :
        /\ k.is_block = 1 /\ k.canceled = 1
        /\ r.is_block = 0 /\ r.user_id = 1 /\ Active(r)
        /\ r.room = k.room /\ Overlap(r, k)
        /\ answer[2] = "time_just_taken" /\ conv[2] = END

\* C32: at every table and time the job queue that post_init builds at the
\* start of the process (on an empty queue) is the queue that a rebuild of
\* the reminders builds: the same booking ids with the same run times; a
\* restart leaves exactly that queue.
C32_StartupEqualsRebuild ==
    /\ [](post_init = reschedule_all_booking_reminders[1])
    /\ [][Restart => jobs' = (reschedule_all_booking_reminders[1])']_vars

\* C32 witness: after a start of the process the queue holds the job of a
\* booking and no job of a block whose start - 1 day is still ahead
C32_Witness ==
    /\ jobs = post_init /\ jobs # EmptyBag
    /\ \E r \in Table : Active(r) /\ r.is_block = 0 /\ BagIn(Job(r.id, FireTime(r)), jobs)
    /\ \E k \in Table : Active(k) /\ k.is_block = 1 /\ FireTime(k) > clock /\ JobsOf(k.id) = {}

\* the step changes the table, its AUTOINCREMENT counter or the job queue
StoreChanges ==
    rows' # rows \/ sqlite_sequence' # sqlite_sequence \/ jobs' # jobs

\* a step of the booking dialog or of the admin-block dialog of user a other
\* than a confirmation that answers "booking created" and the reason step
StepBeforeCommit(a) ==
    \/ book_start(a)
    \/ \E data \in RoomData \cup {"ROOM4", "ROOMX"} : book_choose_room(a, data)
    \/ \E text \in DateProbe : book_choose_date(a, text)
    \/ \E text \in TimeProbe : book_choose_start(a, text)
    \/ \E text \in TimeProbe \cup EndTexts : book_choose_end(a, text)
    \/ \E text \in TopicTexts : book_topic(a, text)
    \/ \E text \in NameTexts : book_name(a, text)
    \/ \E text \in ContactTexts : book_contact(a, text)
    \/ \E data \in ConfirmData :
           /\ conv[a] = BOOK_CONFIRM
           /\ confirm_reply(a, data) # "booking_created"
           /\ book_confirm(a, data)
    \/ book_cancel_command(a)
    \/ admin_block_start(a)
    \/ \E data \in RoomData \cup {"ROOM4", "ROOMX"} : admin_block_choose_room(a, data)
    \/ \E text \in DateProbe : admin_block_choose_date(a, text)
    \/ \E text \in TimeProbe : admin_block_choose_start(a, text)
    \/ \E text \in TimeProbe \cup EndTexts : admin_block_choose_end(a, text)
    \/ busy_cancel_command(a)

\* C33: a step of the booking dialog or of the admin-block dialog changes
\* the table, its counter and the job queue only when it is a confirmation
\* that answers "booking created" or the reason step: no other step of
\* the two dialogs, with an accepted or with a rejected input (the date step
\* that lists the day's records included), can change them; the table grows
\* in a dialog step only by such a confirmation or reason step.
C33_OnlyCommitStepsWrite ==
    /\ [](\A a \in Users : ~ENABLED (StepBeforeCommit(a) /\ StoreChanges))
    /\ [][\A a \in Users :
            ((Booking(a) \/ Blocking(a)) /\ StoreChanges) =>
                \/ \E data \in ConfirmData :
                       /\ book_confirm(a, data)
                       /\ confirm_reply(a, data) = "booking_created"
                       /\ Cardinality(DOMAIN rows' \ Ids) = 1
                \/ \E text \in ReasonTexts :
                       /\ admin_block_reason(a, text)
                       /\ Cardinality(DOMAIN rows' \ Ids) = 1]_vars

\* C33 witness: one record was created, and afterwards the booking dialog of
\* user 1 came to the confirmation and the block dialog of the admin to the
\* reason step without another row, counter value or job
C33_Witness ==
    /\ Cardinality(Ids) = 1 /\ sqlite_sequence = 1
    /\ conv[1] = BOOK_CONFIRM /\ made[1] = 0
    /\ user_data[1].booking.user_contact # NoneText
    /\ ablock_conv[2] = ADMIN_BLOCK_REASON
    /\ BagCardinality(jobs) <= 1

\* C34: whatever the order of confirmations, reminder jobs, rebuilds of the
\* reminders, cancellations and restarts of the process, no reminder
\* message about a record goes to the same chat twice: the owner and the
\* shared chat get at most one reminder for one booking id.
C34_ReminderAtMostOnce ==
    \A m \in BagToSet(outbox) : CopiesIn(m, outbox) = 1

\* C34 witness: the reminder of an active booking went to its owner and to
\* the shared chat, the booking has not started, no job for it is in the
\* queue, every dialog is closed (as after a restart) and a rebuild of the
\* reminders arms nothing for it
C34_Witness ==
    \E r \in Table :
        /\ Active(r) /\ r.is_block = 0 /\ clock < r.start_ts
        /\ r.id \in ran
        /\ CopiesIn([chat_id |-> r.user_id, booking_id |-> r.id], outbox) = 1
        /\ CopiesIn([chat_id |-> GROUP_CHAT_ID, booking_id |-> r.id], outbox) = 1
        /\ JobsOf(r.id) = {}
        /\ \A u \in Users : conv[u] = END /\ ablock_conv[u] = END
        /\ \A j \in BagToSet(reschedule_all_booking_reminders[1]) : j.booking_id # r.id

\* C35: in every reachable state the job queue holds at most one reminder
\* job for one booking id, whatever the order of confirmations, rebuilds of
\* the reminders and restarts of the process.
C35_OneJobPerId ==
    \A n \in 1..MaxSeq :
        /\ Cardinality(JobsOf(n)) <= 1
        /\ \A j \in JobsOf(n) : CopiesIn(j, jobs) = 1

\* C35 witness: after a restart of the process (no dialog is open and none
\* has ended since) an active booking of user 1 has one job, a canceled
\* record has none, and a rebuild of the reminders gives the same queue
C35_Witness ==
    /\ \E r1 \in Table, r2 \in Table :
           /\ r1.user_id = 1 /\ Active(r1)
           /\ CopiesIn(Job(r1.id, FireTime(r1)), jobs) = 1
           /\ r2.canceled = 1 /\ JobsOf(r2.id) = {} /\ r2.id \notin ran
    /\ conv[1] = END /\ answer[1] = "none"
    /\ reschedule_all_booking_reminders[1] = jobs

\* C36: no booking made by the booking dialog starts before the time at
\* which it was inserted (created_at is the time of the insert).
C36_StartNotBeforeCommit ==
    \A r \in Table : r.is_block = 0 => r.start_ts >= r.created_at

\* C37: the cancel command of a user who is no admin, given the id of an
\* active block (a record without owner), answers that the record belongs
\* to somebody else and cannot change the table; a step that cancels a
\* block is a cancel command of an admin.
C37_BlockCanceledByAdminOnly ==
    /\ [](\A a \in Users \ ADMIN_IDS, n \in Ids :
             (rows[n].is_block = 1 /\ rows[n].user_id = None /\ Active(rows[n])) =>
                 /\ cancel_reply(a, <<"int", n>>) = "not_your_booking"
                 /\ ~ENABLED (cancel_booking_command(a, <<"int", n>>) /\ rows' # rows))
    /\ [][\A n \in Ids :
            ( /\ rows[n].is_block = 1 /\ Active(rows[n])
              /\ n \in DOMAIN rows' /\ rows'[n].canceled # 0 ) =>
                \E a \in ADMIN_IDS : cancel_booking_command(a, <<"int", n>>)]_vars

\* C37 witness: a block that has not started is active and user 1, who is
\* no admin, is refused its cancellation, next to a block that was canceled
C37_Witness ==
    \E k \in Table, c \in Table :
        /\ k.is_block = 1 /\ k.user_id = None /\ Active(k) /\ clock < k.start_ts
        /\ cancel_reply(1, <<"int", k.id>>) = "not_your_booking"
        /\ c.is_block = 1 /\ c.canceled = 1

\* C38: a job of the queue belongs to the record it was armed for: the row
\* with the job's id, if there is one, is that record (the job's time is
\* its start - 1 day), and a job whose id is not in the table sends
\* nothing; a reminder job sends messages about its own id only.  After an
\* import has replaced the rows no job of the queue refers to a row of the
\* table, so every job armed before sends nothing when it runs, and the
\* import arms nothing: jobs come into the queue only by a rebuild of the
\* reminders or a restart of the process.
C38_TimerKeepsItsRecord ==
    /\ [](\A j \in BagToSet(jobs) :
             IF j.booking_id \in Ids
             THEN j.when = FireTime(rows[j.booking_id])
             ELSE reminder_messages(j.booking_id) = EmptyBag)
    /\ [][\A j \in BagToSet(jobs) :
            reminder_job(j) =>
                \A m \in BagToSet(outbox') :
                    CopiesIn(m, outbox') > CopiesIn(m, outbox) =>
                        /\ m.booking_id = j.booking_id
                        /\ j.booking_id \in Ids
                        /\ j.when = FireTime(rows[j.booking_id])]_vars
    /\ [][\A a \in Users :
            ImportRuns(a, export_bookings(2)) =>
                /\ jobs' = jobs
                /\ \A j \in BagToSet(jobs') :
                       /\ j.booking_id \notin DOMAIN rows'
                       /\ (reminder_messages(j.booking_id))' = EmptyBag]_vars
    /\ [][(\E j \in BagToSet(jobs') : CopiesIn(j, jobs') > CopiesIn(j, jobs)) =>
              (Restart \/ \E a \in Users : admin_reschedule_reminders(a))]_vars

\* C38 witness: a job armed for a record that an import has replaced ran
\* and sent nothing, and the record that took its place is active, has
\* its reminder time behind it and its start ahead, and got no reminder
C38_Witness ==
    \E n \in ran, r \in Table :
        /\ n \notin Ids /\ MessagesOf(n) = {}
        /\ Active(r) /\ r.is_block = 0 /\ r.id > n
        /\ FireTime(r) <= clock /\ clock < r.start_ts
        /\ r.created_at < FireTime(r)
        /\ JobsOf(r.id) = {} /\ MessagesOf(r.id) = {} /\ r.id \notin ran

\* the job j runs now for a record that is active, no block and not started
FiresForLiveRecord(j) ==
    /\ reminder_job(j)
    /\ ~NotRemindable(j.booking_id)
    /\ clock < rows[j.booking_id].start_ts

\* every job of the queue leaves it: it runs, or a rebuild of the reminders
\* removes it
TimersEnd ==
    \A n \in 1..MaxId : (JobsOf(n) # {}) ~> (JobsOf(n) = {})

C40_DialogCanAlwaysEnd ==
    /\ [](\A a \in Users :
             conv[a] # END =>
                 /\ ENABLED ( /\ book_cancel_command(a)
                              /\ conv'[a] = END
                              /\ ~user_data'[a].booking.present )
                 /\ ~ENABLED (book_cancel_command(a) /\ conv'[a] # END))
    /\ [](\A a \in Users, data \in ConfirmData :
             conv[a] = BOOK_CONFIRM =>
                 ~ENABLED (book_confirm(a, data) /\ conv'[a] # END))
    /\ [][\A a \in Users, data \in ConfirmData :
            book_confirm(a, data) =>
                /\ conv'[a] = END
                /\ answer'[a] \in {"booking_created", "time_just_taken", "booking_canceled"}
                /\ (made'[a] > made[a]) = (answer'[a] = "booking_created")]_vars
    /\ [][\A a \in Users :
            ( /\ conv[a] # END
              /\ (conv'[a] # conv[a] \/ user_data'[a].booking # user_data[a].booking) )
                => Booking(a)]_vars

====
